---- MODULE Spec2Model ----
(***************************************************************************)
(* Model of the client-side service layer of mvx-onchain-proof:            *)
(*   - ContractService (waitForTransaction, createProof, updateProof and   *)
(*     the read operations), src/unnamed/part_000 lines 1-346;             *)
(*   - WalletService (connectWallet, disconnectWallet,                     *)
(*     getCurrentWalletState, signAndSendTransaction, autoReconnect),      *)
(*     src/unnamed/part_000 lines 347-629.                                 *)
(* The code is single-threaded and asynchronous: every action below is the *)
(* code that runs between two awaits of one call.                          *)
(***************************************************************************)
EXTENDS Integers, Sequences, FiniteSets, TLC

VARIABLES
    \* ---- ContractService.waitForTransaction (one call) ----
    w_pc,        \* "idle" | "poll" | "waitTry" | "waitCatch" | "returned" | "raised"
    w_max,       \* the maxRetries argument
    w_i,         \* the loop counter i
    w_polls,     \* answers of the status polls issued so far, in order
    w_waits,     \* number of 2-second waits started so far
    w_result,    \* the value returned or the error raised
    \* ---- WalletService and the browser around it ----
    storage,         \* localStorage 'wallet_state'
    currentProvider, \* WalletService.currentProvider
    now,             \* Date.now(), in milliseconds since the earliest connectedAt
    ticks,           \* number of clock advances so far (bounds the model)
    ret,             \* the most recent completed call and what it gave its caller
    c_pc,            \* connectWallet: "idle" | "init" | "login" | "sync"
    c_providerId,    \* connectWallet: the providerId argument
    c_address,       \* connectWallet: the address login() resolved to
    c_caller,        \* connectWallet: "ui" or "auto" (called by autoReconnect)
    d_pc,            \* disconnectWallet: "idle" | "logout"
    \* ---- ContractService.createProof / updateProof (one call) ----
    m_pc,            \* "idle" | "sign" | "broadcast"
    m_op,            \* "createProof" | "updateProof"
    m_calls,         \* network calls issued by the call, in order
    \* ---- ContractService read operations (one call) ----
    r_pc,            \* "idle" | "query"
    r_op,            \* the read operation in flight
    r_ret,           \* the most recent completed read
    \* ---- utils ContractService read methods (one call) ----
    u_pc,            \* "idle" | "query"
    u_op,            \* the read method in flight
    u_ret,           \* the most recent completed read
    \* ---- a proof's way to the contract and back ----
    k_pc,            \* createProof's transaction: "idle" | "broadcast" | "executed" | "failed"
    k_req,           \* the CreateProofRequest of the last createProof call
    k_args,          \* the argument list of its transaction
    k_pre,           \* the clock reading (seconds) taken before the call
    k_clock,         \* the clock, in seconds
    k_store,         \* the contract's proofs, by proof_id
    k_got,           \* the most recent completed getProof
    \* ---- utils ContractService.validateProofId ----
    v_id,            \* the proofId argument of the last call
    v_ret,           \* what the last call returned
    \* ---- Dashboard.handleCreateProof (one run of the create flow) ----
    f_pc,            \* "idle" | "skipped" | "create" | "wait" | "userProofs" |
                     \* "stats" | "done" | "cleared" | "failed"
    f_tx,            \* the component's TransactionState
    f_reads,         \* the read methods the refresh has called, in order
    \* ---- the argument lists of the mutating calls (one call) ----
    a_fn,            \* "none" | the method that built the list
    a_text,          \* the proof text of its request
    a_id,            \* the proof id of its request
    a_metadata,      \* the metadata of its request
    a_args,          \* the list it built
    \* ---- the Dashboard component ----
    ui_wallet,       \* walletState
    ui_conn,         \* handleWalletConnect is awaiting connectWallet
    ui_disc,         \* handleWalletDisconnect is awaiting disconnectWallet
    ui_cleared,      \* handleWalletDisconnect has completed and no connect
                     \* has succeeded since
    ui_proofs,       \* proofs
    ui_stats,        \* stats
    ui_loadProofs,   \* a loadUserProofs started outside a create flow is awaiting
    ui_loadStats,    \* a loadStats started outside a create flow is awaiting
    ui_modal,        \* showCreateModal
    ui_tx,           \* transaction
    ui_pc,           \* handleCreateProof: "idle" | "create" | "wait" |
                     \* "userProofs" | "stats"
    ui_hash,         \* its txHash
    ui_flows,        \* the number of handleCreateProof runs started
    ui_timers,       \* the number of 5-second timers set and not yet fired
    \* ---- the utils ContractService's signing backend ----
    walletProvider,  \* this.walletProvider: NoValue (null) | the provider type
    uc_pc,           \* "idle" | "init" | "getAddress" | "getAccount" | "send"
    uc_op,           \* the method that is awaiting
    uc_ret,          \* the outcome of the last completed method
    uc_thrown,       \* some connectWallet has thrown
    uc_succeeded     \* some connectWallet has returned

waitVars == <<w_pc, w_max, w_i, w_polls, w_waits, w_result>>

connVars == <<c_pc, c_providerId, c_address, c_caller>>

mutVars == <<m_pc, m_op, m_calls>>

walletVars == <<storage, currentProvider, now, ticks, ret, connVars, d_pc, mutVars>>

readVars == <<r_pc, r_op, r_ret>>

utilReadVars == <<u_pc, u_op, u_ret>>

chainVars == <<k_pc, k_req, k_args, k_pre, k_clock, k_store, k_got>>

validateVars == <<v_id, v_ret>>

flowVars == <<f_pc, f_tx, f_reads>>

argVars == <<a_fn, a_text, a_id, a_metadata, a_args>>

utilConnVars == <<walletProvider, uc_pc, uc_op, uc_ret, uc_thrown, uc_succeeded>>

dashVars == <<ui_wallet, ui_conn, ui_disc, ui_cleared, ui_proofs, ui_stats, ui_loadProofs,
              ui_loadStats, ui_modal, ui_tx, ui_pc, ui_hash, ui_flows, ui_timers>>

nonWaitVars == <<walletVars, readVars, utilReadVars, chainVars, validateVars, flowVars, argVars, dashVars, utilConnVars>>

nonWalletVars == <<waitVars, readVars, utilReadVars, chainVars, validateVars, flowVars, argVars, dashVars, utilConnVars>>

nonReadVars == <<waitVars, walletVars, utilReadVars, chainVars, validateVars, flowVars, argVars, dashVars, utilConnVars>>

nonUtilReadVars == <<waitVars, walletVars, readVars, chainVars, validateVars, flowVars, argVars, dashVars, utilConnVars>>

nonChainVars == <<waitVars, walletVars, readVars, utilReadVars, validateVars, flowVars, argVars, dashVars, utilConnVars>>

nonValidateVars == <<waitVars, walletVars, readVars, utilReadVars, chainVars, flowVars, argVars, dashVars, utilConnVars>>

nonFlowVars == <<waitVars, walletVars, readVars, utilReadVars, chainVars, validateVars, argVars, dashVars, utilConnVars>>

nonArgVars == <<waitVars, walletVars, readVars, utilReadVars, chainVars, validateVars, flowVars, dashVars, utilConnVars>>

nonDashVars == <<waitVars, walletVars, readVars, utilReadVars, chainVars, validateVars, flowVars, argVars, utilConnVars>>

nonUtilConnVars == <<waitVars, walletVars, readVars, utilReadVars, chainVars, validateVars, flowVars, argVars, dashVars>>

vars == <<waitVars, walletVars, readVars, utilReadVars, chainVars, validateVars, flowVars, argVars, dashVars, utilConnVars>>

\* The value of an absent optional field or variable (JavaScript undefined).
NoValue == "<undefined>"

(***************************************************************************)
(* Errors.  A thrown value is an Error object carrying a message, or some  *)
(* other value (a string, an object of the SDK).                           *)
(***************************************************************************)
Err(msg) == [isError |-> TRUE, message |-> msg]

NonErrorThrown == [isError |-> FALSE, message |-> NoValue]

\* What the opaque collaborators (wallet backends, network provider, SDK
\* constructors, result parser) may throw.
ThrownValues == {Err("backend error"), Err(""), NonErrorThrown}

\* error instanceof Error ? error.message : fallback
MessageOf(error, fallback) == IF error.isError THEN error.message ELSE fallback

(***************************************************************************)
(* ContractService.waitForTransaction                                      *)
(***************************************************************************)
\* Largest maxRetries argument the model tries.
MaxRetries == 3

SuccessStatuses == {"executed", "success"}

FailureStatuses == {"failed", "invalid"}

\* Statuses that are neither terminal success nor terminal failure.
NonTerminalStatuses == {"pending", "unknown"}

Statuses == SuccessStatuses \cup FailureStatuses \cup NonTerminalStatuses

\* What one getTransactionStatus call may do: answer a status object, or throw.
StatusOf(s) == [kind |-> "status", status |-> s, error |-> NonErrorThrown]

QueryThrows(e) == [kind |-> "throw", status |-> NoValue, error |-> e]

PollAnswers == {StatusOf(s) : s \in Statuses} \cup {QueryThrows(e) : e \in ThrownValues}

\* Faulty variant of IsSuccessStatus: `executed` is not taken as success.
IsSuccessStatusOnlySuccess(s) == s = "success"

\* status.status === 'executed' || status.status === 'success'
IsSuccessStatus(s) == s \in SuccessStatuses

\* status.status === 'failed' || status.status === 'invalid'
IsFailureStatus(s) == s \in FailureStatuses

\* Faulty variant of LoopContinues: i <= maxRetries.
LoopContinuesOffByOne(i, maxRetries) == i <= maxRetries

\* The loop condition i < maxRetries.
LoopContinues(i, maxRetries) == i < maxRetries

TimeoutError == Err("Transaction timeout")

NoResult == [kind |-> "none", status |-> NoValue, error |-> NonErrorThrown]

Returned(s) == [kind |-> "return", status |-> s, error |-> NonErrorThrown]

Raised(e) == [kind |-> "throw", status |-> NoValue, error |-> e]

\* The head of the for loop with counter value i: either the next
\* getTransactionStatus is issued, or the loop is left and the timeout raised.
LoopHead(i) ==
    /\ w_i' = i
    /\ IF LoopContinues(i, w_max')
       THEN w_pc' = "poll" /\ w_result' = w_result
       ELSE w_pc' = "raised" /\ w_result' = Raised(TimeoutError)

\* Faulty variant of CatchBlock: the error is thrown again on every attempt.
CatchBlockAlwaysRethrows(error) ==
    w_pc' = "raised" /\ w_result' = Raised(error) /\ w_i' = w_i

\* The catch block of the loop body, entered with the thrown value.
CatchBlock(error) ==
    IF w_i = w_max - 1
    THEN w_pc' = "raised" /\ w_result' = Raised(error) /\ w_i' = w_i
    ELSE w_pc' = "waitCatch" /\ w_result' = w_result /\ w_i' = w_i

\* waitForTransaction(txHash, maxRetries) is called.
waitForTransaction(maxRetries) ==
    /\ w_pc \in {"idle", "returned", "raised"}
    /\ w_max' = maxRetries
    /\ w_polls' = <<>>
    /\ w_waits' = 0
    /\ UNCHANGED nonWaitVars
    /\ IF LoopContinues(0, maxRetries)
       THEN w_pc' = "poll" /\ w_result' = NoResult /\ w_i' = 0
       ELSE w_pc' = "raised" /\ w_result' = Raised(TimeoutError) /\ w_i' = 0

\* await this.getTransactionStatus(txHash) settles with `answer`.
getTransactionStatus(answer) ==
    /\ w_pc = "poll"
    /\ w_polls' = Append(w_polls, answer)
    /\ UNCHANGED <<w_max, w_waits, nonWaitVars>>
    /\ IF answer.kind = "throw"
       THEN CatchBlock(answer.error)
       ELSE IF IsSuccessStatus(answer.status)
       THEN w_pc' = "returned" /\ w_result' = Returned(answer.status) /\ w_i' = w_i
       ELSE IF IsFailureStatus(answer.status)
       THEN CatchBlock(Err("Transaction failed: " \o answer.status))
       ELSE w_pc' = "waitTry" /\ w_result' = w_result /\ w_i' = w_i

\* Faulty variant of WaitElapsed: the loop counter is not advanced.
WaitElapsedKeepsCounter ==
    /\ w_pc \in {"waitTry", "waitCatch"}
    /\ w_waits' = w_waits + 1
    /\ UNCHANGED <<w_max, w_polls, nonWaitVars>>
    /\ LoopHead(w_i)

\* One of the two setTimeout(resolve, 2000) waits has elapsed: i++ and the
\* loop condition is evaluated again.
WaitElapsed ==
    /\ w_pc \in {"waitTry", "waitCatch"}
    /\ w_waits' = w_waits + 1
    /\ UNCHANGED <<w_max, w_polls, nonWaitVars>>
    /\ LoopHead(w_i + 1)

WaitNext ==
    \/ \E maxRetries \in 0..MaxRetries : waitForTransaction(maxRetries)
    \/ \E answer \in PollAnswers : getTransactionStatus(answer)
    \/ WaitElapsed

(***************************************************************************)
(* WalletService: data                                                     *)
(***************************************************************************)
\* The four signing backends of the switch in connectWallet.
ValidProviders == {"extension", "webwallet", "walletconnect", "ledger"}

\* Provider ids a caller may pass: the four backends and an unsupported id.
ProviderIds == ValidProviders \cup {"metamask"}

\* this.currentProvider = null
NoProvider == "null"

\* Addresses a backend's login() may resolve to.
Addresses == {"erd1alice", "erd1bob"}

\* The 24-hour staleness window of autoReconnect, in milliseconds.
StalenessWindow == 24 * 60 * 60 * 1000

\* A connectedAt that is not a number (missing from the blob): Date.now() - it
\* is NaN, and every comparison with NaN is false.
NotANumber == 0 - 1

\* Number of clock advances the model follows.
MaxTicks == 1

\* How far the clock moves in one advance: to just inside the staleness
\* window, or to its end.
TickSteps == {StalenessWindow - 1, StalenessWindow}

\* localStorage 'wallet_state'.  kind is
\*   "absent"  : getItem returns null
\*   "empty"   : the empty string
\*   "corrupt" : text JSON.parse throws on
\*   "null"    : the JSON text null
\*   "blob"    : JSON of a non-null value; a field it lacks is NoValue/NotANumber
Stored(kind, providerId, address, connectedAt) ==
    [kind |-> kind, providerId |-> providerId, address |-> address,
     connectedAt |-> connectedAt]

Absent == Stored("absent", NoValue, NoValue, NotANumber)

Blob(providerId, address, connectedAt) == Stored("blob", providerId, address, connectedAt)

\* What localStorage may hold when the page is first loaded: nothing, text left
\* by something else, or the blob of an earlier visit persisted at time 0.
InitialStorage ==
    {Absent,
     Stored("empty", NoValue, NoValue, NotANumber),
     Stored("corrupt", NoValue, NoValue, NotANumber),
     Stored("null", NoValue, NoValue, NotANumber),
     Blob(NoValue, NoValue, NotANumber),
     Blob("extension", "erd1alice", 0),
     Blob("webwallet", "erd1alice", 0),
     Blob("metamask", NoValue, 0)}

\* WalletState (types/proof.ts); isLoading is false in every value the
\* service returns and is left out.
WalletState(isConnected, address, balance, provider, error) ==
    [isConnected |-> isConnected, address |-> address, balance |-> balance,
     provider |-> provider, error |-> error]

\* { isConnected: false, isLoading: false }
DisconnectedState == WalletState(FALSE, NoValue, NoValue, NoValue, NoValue)

\* this.getAvailableProviders().find(p => p.id === providerId)
FindProvider(providerId) ==
    IF providerId \in ValidProviders THEN providerId ELSE NoValue

\* What the step just taken gave a caller: the call that completed (op), what
\* was passed (arg), who called (caller), whether it returned or threw (kind),
\* the value (session, hash or error), the network calls the call had issued
\* (calls), the wallet_state in storage when the completing step began (read),
\* the path the call took through its code (path) and, for a call that failed
\* because a collaborator threw, the value that was thrown (cause).  NoRet
\* after a step in which no call completed.
Ret(op, arg, caller, kind, session, hash, error, calls) ==
    [op |-> op, arg |-> arg, caller |-> caller, kind |-> kind,
     session |-> session, hash |-> hash, error |-> error, calls |-> calls,
     read |-> Absent, path |-> "none", cause |-> NonErrorThrown]

NoRet ==
    Ret("none", NoValue, "ui", "none", DisconnectedState, NoValue, NonErrorThrown, <<>>)

RetSession(op, arg, caller, session) ==
    Ret(op, arg, caller, "return", session, NoValue, NonErrorThrown, <<>>)

RetVoid(op) ==
    Ret(op, NoValue, "ui", "return", DisconnectedState, NoValue, NonErrorThrown, <<>>)

RetHash(op, hash, calls) ==
    Ret(op, NoValue, "ui", "return", DisconnectedState, hash, NonErrorThrown, calls)

RetThrow(op, error, calls) ==
    Ret(op, NoValue, "ui", "throw", DisconnectedState, NoValue, error, calls)

\* The record of a completed call with what it read and the path it took.
Completed(r, read, path) == [r EXCEPT !.read = read, !.path = path]

\* The record of a call that failed because a collaborator threw `thrown`.
CausedBy(r, thrown) == [r EXCEPT !.cause = thrown]

(***************************************************************************)
(* WalletService.connectWallet                                             *)
(***************************************************************************)
\* An awaited call of a collaborator settles: it resolves or it rejects.
Resolved(value) == [ok |-> TRUE, value |-> value, error |-> NonErrorThrown]

Rejected(error) == [ok |-> FALSE, value |-> NoValue, error |-> error]

Outcomes(values) == {Resolved(v) : v \in values} \cup {Rejected(e) : e \in ThrownValues}

\* Faulty variant of ConnectCatch: the catch block throws the error again.
ConnectCatchRethrows(providerId, caller, error) ==
    RetThrow("connectWallet", error, <<>>)

\* The catch block of connectWallet: the WalletState it returns.
ConnectCatch(providerId, caller, error) ==
    RetSession("connectWallet", providerId, caller,
               WalletState(FALSE, NoValue, NoValue, NoValue,
                           MessageOf(error, "Connection failed")))

\* connectWallet ends in its catch block.
ConnectFails(providerId, caller, error, path) ==
    /\ ret' = Completed(ConnectCatch(providerId, caller, error), storage, path)
    /\ c_pc' = "idle"
    /\ c_providerId' = NoValue
    /\ c_caller' = "ui"
    /\ c_address' = NoValue

\* The code of connectWallet(providerId) up to its first await.  `installed`
\* is what isExtensionInstalled() / isLedgerSupported() answers.
ConnectBegin(providerId, caller, installed) ==
    /\ storage' = storage
    /\ IF providerId \in {"extension", "ledger"} /\ ~installed
       THEN /\ ConnectFails(providerId, caller,
                  Err(IF providerId = "extension"
                      THEN "MultiversX Extension not installed"
                      ELSE "Ledger not supported in this browser"),
                  "notInstalled")
            /\ currentProvider' = currentProvider
       ELSE IF providerId \in {"extension", "walletconnect", "ledger"}
       THEN \* await provider.init()
            /\ c_pc' = "init"
            /\ c_providerId' = providerId
            /\ c_caller' = caller
            /\ c_address' = NoValue
            /\ ret' = NoRet
            /\ currentProvider' = currentProvider
       ELSE IF providerId = "webwallet"
       THEN \* no init: this.currentProvider = provider; await provider.login()
            /\ c_pc' = "login"
            /\ c_providerId' = providerId
            /\ c_caller' = caller
            /\ c_address' = NoValue
            /\ ret' = NoRet
            /\ currentProvider' = providerId
       ELSE /\ ConnectFails(providerId, caller, Err("Unknown provider: " \o providerId),
                         "unknownProvider")
            /\ currentProvider' = currentProvider

\* The UI calls walletService.connectWallet(providerId).
connectWallet(providerId, installed) ==
    /\ c_pc = "idle"
    /\ ConnectBegin(providerId, "ui", installed)
    /\ UNCHANGED <<nonWalletVars, now, ticks, d_pc, mutVars>>

\* await provider.init() settles.
ConnectInitSettles(outcome) ==
    /\ c_pc = "init"
    /\ IF outcome.ok
       THEN \* this.currentProvider = provider; await provider.login()
            /\ currentProvider' = c_providerId
            /\ c_pc' = "login"
            /\ ret' = NoRet
            /\ UNCHANGED <<c_providerId, c_caller, c_address>>
       ELSE /\ ConnectFails(c_providerId, c_caller, outcome.error, "init")
            /\ currentProvider' = currentProvider
    /\ UNCHANGED <<nonWalletVars, storage, now, ticks, d_pc, mutVars>>

\* await provider.login() settles; new Account(new Address(address)) is
\* built (`accountThrows`: the SDK rejects the address) and account.sync is
\* awaited.
ConnectLoginSettles(outcome, accountThrows) ==
    /\ c_pc = "login"
    /\ IF ~outcome.ok
       THEN ConnectFails(c_providerId, c_caller, outcome.error, "login")
       ELSE IF accountThrows
       THEN ConnectFails(c_providerId, c_caller, Err("Invalid address"), "account")
       ELSE /\ c_pc' = "sync"
            /\ c_address' = outcome.value
            /\ ret' = NoRet
            /\ UNCHANGED <<c_providerId, c_caller>>
    /\ UNCHANGED <<nonWalletVars, storage, currentProvider, now, ticks, d_pc, mutVars>>

\* Faulty variant of PersistedBlob: connectedAt is not taken from the clock.
PersistedBlobStaleClock(providerId, address, time) == Blob(providerId, address, 0)

\* Faulty variant of PersistedBlob: the address is left out of the blob.
PersistedBlobWithoutAddress(providerId, address, time) == Blob(providerId, NoValue, time)

\* What connectWallet persists on success.
PersistedBlob(providerId, address, time) == Blob(providerId, address, time)

\* await account.sync(networkProvider) settles; on success the WalletState is
\* built, the blob is written (`setItemThrows`: localStorage.setItem throws,
\* e.g. quota exceeded) and the WalletState returned.
ConnectSyncSettles(outcome, setItemThrows) ==
    /\ c_pc = "sync"
    /\ IF ~outcome.ok
       THEN ConnectFails(c_providerId, c_caller, outcome.error, "sync") /\ storage' = storage
       ELSE IF setItemThrows
       THEN ConnectFails(c_providerId, c_caller, Err("QuotaExceededError"), "setItem")
            /\ storage' = storage
       ELSE /\ storage' = PersistedBlob(c_providerId, c_address, now)
            /\ ret' = Completed(RetSession("connectWallet", c_providerId, c_caller,
                                    WalletState(TRUE, c_address, outcome.value,
                                                FindProvider(c_providerId), NoValue)),
                                storage, "ok")
            /\ c_pc' = "idle"
            /\ c_providerId' = NoValue
            /\ c_caller' = "ui"
            /\ c_address' = NoValue
    /\ UNCHANGED <<nonWalletVars, currentProvider, now, ticks, d_pc, mutVars>>

(***************************************************************************)
(* WalletService.disconnectWallet                                          *)
(***************************************************************************)
\* Faulty variant of DisconnectFinally: the clean-up is skipped when logout
\* threw (clean-up at the end of the try block, not in finally).
DisconnectFinallyOnlyOnSuccess(path) ==
    /\ currentProvider' = IF path = "logoutThrew" THEN currentProvider ELSE NoProvider
    /\ storage' = IF path = "logoutThrew" THEN storage ELSE Absent
    /\ ret' = Completed(RetVoid("disconnectWallet"), storage, path)
    /\ d_pc' = "idle"

\* The catch (the logout error is logged) and the finally block.
DisconnectFinally(path) ==
    /\ currentProvider' = NoProvider
    /\ storage' = Absent
    /\ ret' = Completed(RetVoid("disconnectWallet"), storage, path)
    /\ d_pc' = "idle"

\* disconnectWallet() is called.  `hasLogout`: the active backend has a
\* logout method.
disconnectWallet(hasLogout) ==
    /\ d_pc = "idle"
    /\ IF currentProvider # NoProvider /\ hasLogout
       THEN \* await this.currentProvider.logout()
            /\ d_pc' = "logout"
            /\ ret' = NoRet
            /\ UNCHANGED <<currentProvider, storage>>
       ELSE DisconnectFinally(IF currentProvider = NoProvider
                              THEN "noProvider" ELSE "noLogout")
    /\ UNCHANGED <<nonWalletVars, now, ticks, connVars, mutVars>>

\* await this.currentProvider.logout() settles.
DisconnectLogoutSettles(outcome) ==
    /\ d_pc = "logout"
    /\ DisconnectFinally(IF outcome.ok THEN "logoutOk" ELSE "logoutThrew")
    /\ UNCHANGED <<nonWalletVars, now, ticks, connVars, mutVars>>

(***************************************************************************)
(* WalletService.getCurrentWalletState                                     *)
(***************************************************************************)
\* !stored
StoredIsFalsy(stored) == stored.kind \in {"absent", "empty"}

\* const {...} = JSON.parse(stored) throws: the text is not JSON, or it is
\* the JSON null, which cannot be destructured.
ParseOrDestructureThrows(stored) == stored.kind \in {"corrupt", "null"}

\* The WalletState getCurrentWalletState returns.
CurrentWalletState(stored) ==
    IF StoredIsFalsy(stored) \/ ParseOrDestructureThrows(stored)
    THEN DisconnectedState
    ELSE WalletState(TRUE, stored.address, NoValue,
                     FindProvider(stored.providerId), NoValue)

\* Faulty variant of StorageAfterGet: the catch block does not removeItem.
StorageAfterGetKeepsCorrupt(stored) == stored

\* localStorage after getCurrentWalletState: the catch block removes the key.
StorageAfterGet(stored) ==
    IF ~StoredIsFalsy(stored) /\ ParseOrDestructureThrows(stored)
    THEN Absent
    ELSE stored

\* The UI (or a test) calls walletService.getCurrentWalletState().
getCurrentWalletState ==
    /\ ret' = Completed(RetSession("getCurrentWalletState", NoValue, "ui",
                                   CurrentWalletState(storage)),
                        storage, "ok")
    /\ storage' = StorageAfterGet(storage)
    /\ UNCHANGED <<nonWalletVars, currentProvider, now, ticks, connVars, d_pc, mutVars>>

(***************************************************************************)
(* WalletService.autoReconnect                                             *)
(***************************************************************************)
\* Faulty variant of IsRecentConnection: <= for <.
IsRecentConnectionInclusive(time, connectedAt) ==
    connectedAt # NotANumber /\ time - connectedAt <= StalenessWindow

\* Date.now() - connectedAt < 24 * 60 * 60 * 1000
IsRecentConnection(time, connectedAt) ==
    connectedAt # NotANumber /\ time - connectedAt < StalenessWindow

\* autoReconnect() is called.  It either returns at once or calls
\* connectWallet(providerId) and returns what that call returns.
autoReconnect(installed) ==
    /\ c_pc = "idle"
    /\ IF StoredIsFalsy(storage)
       THEN /\ ret' = Completed(RetSession("autoReconnect", NoValue, "ui",
                                           DisconnectedState),
                                storage, "nothingStored")
            /\ UNCHANGED <<storage, currentProvider, connVars>>
       ELSE IF ParseOrDestructureThrows(storage)
       THEN /\ storage' = Absent
            /\ ret' = Completed(RetSession("autoReconnect", NoValue, "ui",
                                    WalletState(FALSE, NoValue, NoValue, NoValue,
                                                "Auto-reconnect failed")),
                                storage, "catch")
            /\ UNCHANGED <<currentProvider, connVars>>
       ELSE IF IsRecentConnection(now, storage.connectedAt)
               /\ storage.providerId # "webwallet"
       THEN ConnectBegin(storage.providerId, "auto", installed)
       ELSE /\ storage' = Absent
            /\ ret' = Completed(RetSession("autoReconnect", NoValue, "ui",
                                           DisconnectedState),
                                storage, "expired")
            /\ UNCHANGED <<currentProvider, connVars>>
    /\ UNCHANGED <<nonWalletVars, now, ticks, d_pc, mutVars>>

(***************************************************************************)
(* ContractService.createProof / updateProof and                           *)
(* WalletService.signAndSendTransaction                                    *)
(***************************************************************************)
MutatingOps == {"createProof", "updateProof"}

\* Transaction hashes the network provider may answer a broadcast with.
TxHashes == {"tx1", "tx2"}

\* !(!walletState.isConnected || !walletState.address)
WalletGuardPasses(walletState) ==
    walletState.isConnected /\ walletState.address \notin {NoValue, ""}

\* Faulty variant of BackendActive: no check of this.currentProvider.
BackendActiveUnchecked(provider) == TRUE

\* !(!this.currentProvider)
BackendActive(provider) == provider # NoProvider

FallbackMessage(op) ==
    IF op = "createProof" THEN "Failed to create proof" ELSE "Failed to update proof"

\* Faulty variant of MutateCatch: the catch block logs the error and returns.
MutateCatchSwallows(op, error, calls) == RetHash(op, NoValue, calls)

\* The catch block of createProof / updateProof.
MutateCatch(op, error, calls) ==
    RetThrow(op, Err(MessageOf(error, FallbackMessage(op))), calls)

\* The catch block of signAndSendTransaction.
SignAndSendCatch(error) == Err(MessageOf(error, "Transaction failed"))

\* createProof(request) / updateProof(request) is called: the guard, the
\* building of the transaction (`build`: the SDK constructors and
\* contract.call return, or one of them throws) and signAndSendTransaction up
\* to its first await.
MutateStart(op, build) ==
    /\ m_pc = "idle"
    /\ storage' = StorageAfterGet(storage)
    /\ IF ~WalletGuardPasses(CurrentWalletState(storage))
       THEN /\ ret' = Completed(RetThrow(op, Err("Wallet not connected"), <<>>),
                                storage, "guard")
            /\ UNCHANGED mutVars
       ELSE IF ~build.ok
       THEN /\ ret' = CausedBy(Completed(MutateCatch(op, build.error, <<>>),
                                         storage, "build"),
                               build.error)
            /\ UNCHANGED mutVars
       ELSE IF ~BackendActive(currentProvider)
       THEN /\ ret' = Completed(MutateCatch(op, Err("No wallet connected"), <<>>),
                                storage, "noBackend")
            /\ UNCHANGED mutVars
       ELSE \* await this.currentProvider.signTransaction(transaction)
            /\ m_pc' = "sign"
            /\ m_op' = op
            /\ m_calls' = <<"sign">>
            /\ ret' = NoRet
    /\ UNCHANGED <<nonWalletVars, currentProvider, now, ticks, connVars, d_pc>>

\* The call has completed: its locals are gone.
MutateDone ==
    /\ m_pc' = "idle"
    /\ m_op' = NoValue
    /\ m_calls' = <<>>

\* Faulty variant of SignSettles: the transaction is broadcast whether or not
\* signing succeeded.
SignSettlesBroadcastsAnyway(outcome) ==
    /\ m_pc = "sign"
    /\ m_pc' = "broadcast"
    /\ m_calls' = Append(m_calls, "broadcast")
    /\ ret' = NoRet
    /\ UNCHANGED <<m_op, nonWalletVars, storage, currentProvider, now, ticks, connVars, d_pc>>

\* await this.currentProvider.signTransaction(transaction) settles.
SignSettles(outcome) ==
    /\ m_pc = "sign"
    /\ IF outcome.ok
       THEN \* await this.networkProvider.sendTransaction(transaction)
            /\ m_pc' = "broadcast"
            /\ m_calls' = Append(m_calls, "broadcast")
            /\ ret' = NoRet
            /\ UNCHANGED m_op
       ELSE /\ ret' = CausedBy(Completed(MutateCatch(m_op, SignAndSendCatch(outcome.error),
                                                     m_calls),
                                         storage, "sign"),
                               outcome.error)
            /\ MutateDone
    /\ UNCHANGED <<nonWalletVars, storage, currentProvider, now, ticks, connVars, d_pc>>

\* await this.networkProvider.sendTransaction(transaction) settles.
BroadcastSettles(outcome) ==
    /\ m_pc = "broadcast"
    /\ ret' = IF outcome.ok
              THEN Completed(RetHash(m_op, outcome.value, m_calls), storage, "ok")
              ELSE CausedBy(Completed(MutateCatch(m_op, SignAndSendCatch(outcome.error),
                                                  m_calls),
                                      storage, "broadcast"),
                            outcome.error)
    /\ MutateDone
    /\ UNCHANGED <<nonWalletVars, storage, currentProvider, now, ticks, connVars, d_pc>>

(***************************************************************************)
(* The browser                                                             *)
(***************************************************************************)
\* Time passes.
Tick(step) ==
    /\ ticks < MaxTicks
    /\ ticks' = ticks + 1
    /\ now' = now + step
    /\ ret' = NoRet
    /\ UNCHANGED <<nonWalletVars, storage, currentProvider, connVars, d_pc, mutVars>>

\* The page is reloaded: the singletons are constructed anew
\* (currentProvider = null), calls in flight are gone, localStorage stays.
PageLoad ==
    /\ currentProvider' = NoProvider
    /\ ret' = NoRet
    /\ c_pc' = "idle" /\ c_providerId' = NoValue /\ c_address' = NoValue
    /\ c_caller' = "ui"
    /\ d_pc' = "idle"
    /\ m_pc' = "idle" /\ m_op' = NoValue /\ m_calls' = <<>>
    /\ UNCHANGED <<nonWalletVars, storage, now, ticks>>

\* The first connectWallet call after a page load, on its own.
FirstConnectNext ==
    \/ /\ ret = NoRet
       /\ \E p \in ProviderIds, installed \in BOOLEAN : connectWallet(p, installed)
    \/ \E o \in Outcomes({"ok"}) : ConnectInitSettles(o)
    \/ \E o \in Outcomes(Addresses), accountThrows \in BOOLEAN :
           ConnectLoginSettles(o, accountThrows)
    \/ \E o \in Outcomes({"0"}), setItemThrows \in BOOLEAN :
           ConnectSyncSettles(o, setItemThrows)

WalletNext ==
    \/ \E p \in ProviderIds, installed \in BOOLEAN : connectWallet(p, installed)
    \/ \E o \in Outcomes({"ok"}) : ConnectInitSettles(o)
    \/ \E o \in Outcomes(Addresses), accountThrows \in BOOLEAN :
           ConnectLoginSettles(o, accountThrows)
    \/ \E o \in Outcomes({"0"}), setItemThrows \in BOOLEAN :
           ConnectSyncSettles(o, setItemThrows)
    \/ \E hasLogout \in BOOLEAN : disconnectWallet(hasLogout)
    \/ \E o \in Outcomes({"ok"}) : DisconnectLogoutSettles(o)
    \/ getCurrentWalletState
    \/ \E installed \in BOOLEAN : autoReconnect(installed)
    \/ \E op \in MutatingOps, build \in Outcomes({"built"}) : MutateStart(op, build)
    \/ \E o \in Outcomes({"ok"}) : SignSettles(o)
    \/ \E o \in Outcomes(TxHashes) : BroadcastSettles(o)
    \/ \E step \in TickSteps : Tick(step)
    \/ PageLoad

(***************************************************************************)
(* ContractService read operations: getProof, getUserProofs, proofExists,  *)
(* getProofOwner, getUserProofCount, getTotalProofs                        *)
(***************************************************************************)
ReadOps == {"getProof", "getUserProofs", "proofExists", "getProofOwner",
            "getUserProofCount", "getTotalProofs"}

\* Read operations that build an Address from their argument.
ReadOpsWithAddress == {"getProof", "getUserProofs", "getUserProofCount"}

\* JavaScript values the read operations return or decode.
Js(type, text, num, items) == [type |-> type, text |-> text, num |-> num, items |-> items]

JsNull == Js("null", "null", 0, <<>>)

JsUndefined == Js("undefined", "undefined", 0, <<>>)

JsBool(b) == Js("boolean", IF b THEN "true" ELSE "false", 0, <<>>)

JsNumber(n) == Js("number", "", n, <<>>)

JsNaN == Js("number", "NaN", 0, <<>>)

JsString(s) == Js("string", s, 0, <<>>)

\* An array of ProofData (getUserProofs), or one ProofData (a list of one).
JsArray(items) == Js("array", "", 0, items)

JsProof(p) == Js("object", "", 0, <<p>>)

\* A decoded proof as the parser hands it over; wellFormed: it has the four
\* fields, so that .toString() on each of them works.
DecodedProof(id, timestampText, wellFormed) ==
    [proof_text |-> "T", proof_id |-> id, timestamp |-> timestampText,
     metadata |-> "{}", wellFormed |-> wellFormed]

\* parseInt(text) on the texts the model uses.
ParseInt(text) ==
    CASE text = "0" -> JsNumber(0)
      [] text = "1" -> JsNumber(1)
      [] text = "2" -> JsNumber(2)
      [] text = "3" -> JsNumber(3)
      [] text = "4" -> JsNumber(4)
      [] text = "5" -> JsNumber(5)
      [] text = "1700000000" -> JsNumber(1700000000)
      [] OTHER -> JsNaN

\* Faulty variant of ProofData: proof_text and proof_id are taken from each
\* other's field.
ProofDataFieldsSwapped(d) ==
    [proof_text |-> d.proof_id, timestamp |-> ParseInt(d.timestamp),
     proof_id |-> d.proof_text, metadata |-> d.metadata]

\* { proof_text: ..., timestamp: parseInt(...), proof_id: ..., metadata: ... }
ProofData(d) ==
    [proof_text |-> d.proof_text, timestamp |-> ParseInt(d.timestamp),
     proof_id |-> d.proof_id, metadata |-> d.metadata]

DecodedProofs ==
    {DecodedProof("X", "1700000000", TRUE), DecodedProof("X", "", FALSE)}

\* What decoded[0] may be, per operation.  kind "falsy": undefined/null/0;
\* "proof", "list" (an array of proofs), "bool", "other" (a truthy value of
\* another type), "text" (a value whose toString() is `text`).
First(kind, bool, text, proofs) ==
    [kind |-> kind, bool |-> bool, text |-> text, proofs |-> proofs]

FirstValues(op) ==
    {First("falsy", FALSE, "", <<>>), First("other", FALSE, "", <<>>)}
    \cup (CASE op = "getProof" ->
                 {First("proof", FALSE, "", <<d>>) : d \in DecodedProofs}
            [] op = "getUserProofs" ->
                 {First("list", FALSE, "", <<>>)}
                 \cup {First("list", FALSE, "", <<d>>) : d \in DecodedProofs}
            [] op = "proofExists" ->
                 {First("bool", b, "", <<>>) : b \in BOOLEAN}
            [] op = "getProofOwner" ->
                 {First("text", FALSE, "erd1alice", <<>>)}
            [] OTHER ->
                 {First("text", FALSE, t, <<>>) : t \in {"0", "3", "abc"}})

\* What resultsParser.parseQueryResponse may do: throw, or return `decoded`:
\* a falsy value, an empty array, or an array whose first element is `first`.
Parse(kind, first, error) == [kind |-> kind, first |-> first, error |-> error]

NoFirst == First("falsy", FALSE, "", <<>>)

ParseOutcomes(op) ==
    {Parse("throw", NoFirst, e) : e \in ThrownValues}
    \cup {Parse("undefined", NoFirst, NonErrorThrown),
          Parse("emptyArray", NoFirst, NonErrorThrown)}
    \cup {Parse("array", f, NonErrorThrown) : f \in FirstValues(op)}

\* What networkProvider.queryContract may do: throw, or answer a response
\* without returnData, with an empty returnData, or with data.
Response(kind, error) == [kind |-> kind, error |-> error]

Responses ==
    {Response("throw", e) : e \in ThrownValues}
    \cup {Response(k, NonErrorThrown) : k \in {"noReturnData", "emptyReturnData", "data"}}

\* The value the catch block of each read operation returns.
ReadDefault(op) ==
    CASE op \in {"getProof", "getProofOwner"} -> JsNull
      [] op = "getUserProofs" -> JsArray(<<>>)
      [] op = "proofExists" -> JsBool(FALSE)
      [] OTHER -> JsNumber(0)

Value(v) == [kind |-> "return", value |-> v, error |-> NonErrorThrown]

Throws(e) == [kind |-> "throw", value |-> JsUndefined, error |-> e]

\* decoded[0], with undefined for a falsy decoded and for an empty array.
FirstOf(parse) == IF parse.kind = "array" THEN parse.first ELSE NoFirst

\* The statements of the try block after the parse, per operation.
AfterParse(op, parse) ==
    LET first == FirstOf(parse) IN
    CASE op = "getProof" ->
           IF first.kind = "falsy" THEN Value(JsNull)
           ELSE IF first.kind = "proof" /\ first.proofs[1].wellFormed
           THEN Value(JsProof(ProofData(first.proofs[1])))
           ELSE Throws(Err("Cannot read properties of undefined"))
      [] op = "getUserProofs" ->
           IF first.kind # "list" THEN Value(JsArray(<<>>))
           ELSE IF \A i \in 1..Len(first.proofs) : first.proofs[i].wellFormed
           THEN Value(JsArray([i \in 1..Len(first.proofs) |-> ProofData(first.proofs[i])]))
           ELSE Throws(Err("Cannot read properties of undefined"))
      [] op = "proofExists" ->
           \* return decoded && decoded[0] === true
           IF parse.kind = "undefined" THEN Value(JsUndefined)
           ELSE Value(JsBool(first.kind = "bool" /\ first.bool))
      [] op = "getProofOwner" ->
           IF first.kind = "falsy" THEN Value(JsNull)
           ELSE IF first.kind = "text" THEN Value(JsString(first.text))
           ELSE Value(JsString("[object Object]"))
      [] OTHER ->
           IF first.kind = "falsy" THEN Value(JsNumber(0))
           ELSE IF first.kind = "text" THEN Value(ParseInt(first.text))
           ELSE Value(JsNaN)

\* The try block from the settled queryContract on.
TryBlock(op, response, parse) ==
    IF response.kind = "throw" THEN Throws(response.error)
    ELSE IF response.kind \in {"noReturnData", "emptyReturnData"}
    THEN Value(ReadDefault(op))
    ELSE IF parse.kind = "throw" THEN Throws(parse.error)
    ELSE AfterParse(op, parse)

\* Faulty variant of ReadCatch: the catch block logs and throws again.
ReadCatchRethrows(op, tried) == tried

\* The catch block: console.error and the default value.
ReadCatch(op, tried) ==
    IF tried.kind = "throw" THEN Value(ReadDefault(op)) ELSE tried

\* A completed read: the operation, what the collaborators did, the outcome.
ReadRet(op, how, outcome) == [op |-> op, how |-> how, outcome |-> outcome]

NoReadRet == ReadRet("none", "none", Value(JsUndefined))

\* A read operation is called: the query is created (`createQueryThrows`: new
\* Address(userAddress) rejects the address) and queryContract is awaited.
ReadStart(op, createQueryThrows) ==
    /\ r_pc = "idle"
    /\ IF createQueryThrows /\ op \in ReadOpsWithAddress
       THEN /\ r_ret' = ReadRet(op, "createQueryThrows",
                                ReadCatch(op, Throws(Err("Invalid address"))))
            /\ UNCHANGED <<r_pc, r_op>>
       ELSE /\ r_pc' = "query"
            /\ r_op' = op
            /\ r_ret' = r_ret
    /\ UNCHANGED nonReadVars

\* How a completed read came about, for the record.
HowOf(response, parse) ==
    IF response.kind = "throw" THEN "providerThrows"
    ELSE IF response.kind # "data" THEN response.kind
    ELSE IF parse.kind = "throw" THEN "parserThrows"
    ELSE "parsed"

\* await this.networkProvider.queryContract(query) settles; the rest of the
\* operation runs to its return.
QuerySettles(response, parse) ==
    /\ r_pc = "query"
    /\ parse \in ParseOutcomes(r_op)
    /\ r_ret' = ReadRet(r_op, HowOf(response, parse),
                        ReadCatch(r_op, TryBlock(r_op, response, parse)))
    /\ r_pc' = "idle"
    /\ r_op' = "none"
    /\ UNCHANGED nonReadVars

ReadNext ==
    \/ \E op \in ReadOps, createQueryThrows \in BOOLEAN : ReadStart(op, createQueryThrows)
    \/ \E response \in Responses, parse \in UNION {ParseOutcomes(op) : op \in ReadOps} :
           QuerySettles(response, parse)

(***************************************************************************)
(* utils/contractService.ts: the read methods of the SDK-style              *)
(* ContractService (getProof, getUserProofs, getUserProofIds,               *)
(* getProofOwner, getTotalProofs, getUserProofCount, proofExists)           *)
(***************************************************************************)
UtilReadOps == {"getProof", "getUserProofs", "getUserProofIds", "getProofOwner",
                "getTotalProofs", "getUserProofCount", "proofExists"}

\* Read methods that build an Address from their argument.
UtilReadOpsWithAddress == {"getProof", "getUserProofs", "getUserProofIds",
                           "getUserProofCount"}

\* An array of strings (getUserProofIds) holding the one id `text`.
JsStrings(text) == Js("strings", text, 0, <<>>)

\* What result[0] may be, per method: undefined (kind "falsy"), a decoded
\* proof, or a value whose toString() is `text`.
UtilFirstValues(op) ==
    {NoFirst}
    \cup (CASE op \in {"getProof", "getUserProofs"} ->
                 {First("proof", FALSE, "", <<d>>) : d \in DecodedProofs}
            [] op = "getUserProofIds" ->
                 {First("text", FALSE, "X", <<>>)}
            [] op = "getProofOwner" ->
                 {First("text", FALSE, "erd1alice", <<>>)}
            [] op = "proofExists" ->
                 {First("text", FALSE, t, <<>>) : t \in {"true", "false"}}
            [] OTHER ->
                 {First("text", FALSE, t, <<>>) : t \in {"0", "3", "abc"}})

\* What resultsParser.parseQueryResponse may do: throw, or return an empty
\* array or an array whose first element is `first`.
UtilParseOutcomes(op) ==
    {Parse("throw", NoFirst, e) : e \in ThrownValues}
    \cup {Parse("emptyArray", NoFirst, NonErrorThrown)}
    \cup {Parse("array", f, NonErrorThrown) : f \in UtilFirstValues(op)}

\* What provider.queryContract may do: throw, or answer a response that is
\* not a success, has an empty returnData, or has data.
UtilResponses ==
    {Response("throw", e) : e \in ThrownValues}
    \cup {Response(k, NonErrorThrown) : k \in {"notSuccess", "emptyReturnData", "data"}}

\* The value returned after the if block, when the response carries no data.
UtilReadDefault(op) ==
    CASE op \in {"getProof", "getProofOwner"} -> JsNull
      [] op \in {"getUserProofs", "getUserProofIds"} -> JsArray(<<>>)
      [] op = "proofExists" -> JsBool(FALSE)
      [] OTHER -> JsNumber(0)

\* parseProofData(data): each field's toString(), or '' ('0' for the
\* timestamp) when the field is missing.
parseProofData(d) ==
    IF d.wellFormed
    THEN [proof_text |-> d.proof_text, timestamp |-> ParseInt(d.timestamp),
          proof_id |-> d.proof_id, metadata |-> d.metadata]
    ELSE [proof_text |-> "", timestamp |-> ParseInt("0"),
          proof_id |-> "", metadata |-> ""]

\* The statements inside the if block after the parse, per method.  Reading
\* a property of, or calling toString() on, an undefined result[0] throws a
\* TypeError.
UtilAfterParse(op, parse) ==
    LET first == FirstOf(parse)
        typeError == Throws(Err("Cannot read properties of undefined"))
    IN
    CASE op = "getProof" ->
           IF first.kind = "falsy" THEN typeError
           ELSE Value(JsProof(parseProofData(first.proofs[1])))
      [] op = "getUserProofs" ->
           IF parse.kind = "emptyArray" THEN Value(JsArray(<<>>))
           ELSE IF first.kind = "falsy" THEN typeError
           ELSE Value(JsArray(<<parseProofData(first.proofs[1])>>))
      [] op = "getUserProofIds" ->
           IF parse.kind = "emptyArray" THEN Value(JsArray(<<>>))
           ELSE IF first.kind = "falsy" THEN typeError
           ELSE Value(JsStrings(first.text))
      [] op = "getProofOwner" ->
           IF first.kind = "falsy" THEN typeError ELSE Value(JsString(first.text))
      [] op = "proofExists" ->
           IF first.kind = "falsy" THEN typeError
           ELSE Value(JsBool(first.text = "true"))
      [] OTHER ->
           IF first.kind = "falsy" THEN typeError ELSE Value(ParseInt(first.text))

\* The try block from the settled queryContract on.
UtilTryBlock(op, response, parse) ==
    IF response.kind = "throw" THEN Throws(response.error)
    ELSE IF response.kind \in {"notSuccess", "emptyReturnData"}
    THEN Value(UtilReadDefault(op))
    ELSE IF parse.kind = "throw" THEN Throws(parse.error)
    ELSE UtilAfterParse(op, parse)

\* The catch block: console.error(...); throw error.
UtilReadCatch(op, tried) == tried

\* A read method is called: the interaction and the query are built
\* (`createQueryThrows`: new Address(userAddress) rejects the address) and
\* provider.queryContract is awaited.
UtilReadStart(op, createQueryThrows) ==
    /\ u_pc = "idle"
    /\ IF createQueryThrows /\ op \in UtilReadOpsWithAddress
       THEN /\ u_ret' = ReadRet(op, "createQueryThrows",
                                UtilReadCatch(op, Throws(Err("Invalid address"))))
            /\ UNCHANGED <<u_pc, u_op>>
       ELSE /\ u_pc' = "query"
            /\ u_op' = op
            /\ u_ret' = u_ret
    /\ UNCHANGED nonUtilReadVars

\* await this.provider.queryContract(query) settles; the rest of the method
\* runs to its return or throw.
UtilQuerySettles(response, parse) ==
    /\ u_pc = "query"
    /\ parse \in UtilParseOutcomes(u_op)
    /\ u_ret' = ReadRet(u_op, HowOf(response, parse),
                        UtilReadCatch(u_op, UtilTryBlock(u_op, response, parse)))
    /\ u_pc' = "idle"
    /\ u_op' = "none"
    /\ UNCHANGED nonUtilReadVars

UtilReadNext ==
    \/ \E op \in UtilReadOps, createQueryThrows \in BOOLEAN :
           UtilReadStart(op, createQueryThrows)
    \/ \E response \in UtilResponses,
          parse \in UNION {UtilParseOutcomes(op) : op \in UtilReadOps} :
           UtilQuerySettles(response, parse)

(***************************************************************************)
(* A proof's way to the contract and back: createProof's argument list, the *)
(* contract's certify_action and getProof (its source is not part of the    *)
(* client bundle: modelled from the data model and interfaces of the        *)
(* specification), and the client's getProof.                               *)
(***************************************************************************)
\* Latest clock reading the model follows, in seconds.
MaxClock == 3

ProofTexts == {"T"}

ProofIds == {"X", "Y"}

\* request.metadata: not given, the empty string, or a JSON text.
Metadatas == {NoValue, "", "{}"}

CreateProofRequests ==
    [proof_text : ProofTexts, proof_id : ProofIds, metadata : Metadatas]

\* if (request.metadata): neither undefined nor the empty string.
MetadataProvided(metadata) == metadata \notin {NoValue, ""}

\* The args of createProof's contract call.
CreateProofArgs(request) ==
    IF MetadataProvided(request.metadata)
    THEN <<request.proof_text, request.proof_id, request.metadata>>
    ELSE <<request.proof_text, request.proof_id>>

\* The u64 timestamp's toString(), on the clock readings of the model.
U64Text(n) ==
    CASE n = 0 -> "0"
      [] n = 1 -> "1"
      [] n = 2 -> "2"
      [] n = 3 -> "3"
      [] n = 4 -> "4"
      [] OTHER -> "5"

\* An entry of the contract's storage; exists = FALSE: no proof with that id.
StoredProof(exists, owner, text, id, metadata, timestamp) ==
    [exists |-> exists, owner |-> owner, proof_text |-> text, proof_id |-> id,
     metadata |-> metadata, timestamp |-> timestamp]

NoStoredProof == StoredProof(FALSE, NoValue, NoValue, NoValue, NoValue, 0)

\* certify_action(proof_text, proof_id, metadata?) executed for `caller` at
\* block time `time`: the ProofRecord the contract stores.
CertifyAction(caller, args, time) ==
    StoredProof(TRUE, caller, args[1], args[2],
                IF Len(args) >= 3 THEN args[3] ELSE "", time)

\* The contract's answer to getProof(user, proof_id), as the result parser
\* decodes it: nothing, or the ProofData of the record.
ContractGetProof(store, user, id) ==
    IF store[id].exists /\ store[id].owner = user
    THEN Parse("array",
               First("proof", FALSE, "",
                     <<[proof_text |-> store[id].proof_text, proof_id |-> store[id].proof_id,
                        timestamp |-> U64Text(store[id].timestamp),
                        metadata |-> store[id].metadata, wellFormed |-> TRUE]>>),
               NonErrorThrown)
    ELSE Parse("array", NoFirst, NonErrorThrown)

\* A completed getProof: its arguments, the state of the createProof
\* transaction when it was called, whether the network answered the query,
\* and the value returned.
GotProof(user, id, when, answered, value) ==
    [user |-> user, id |-> id, when |-> when, answered |-> answered, value |-> value]

NoGotProof == GotProof(NoValue, NoValue, "none", FALSE, JsUndefined)

\* The connected address calls createProof(request) after reading the clock;
\* the call returns the transaction hash once the transaction is broadcast.
ChainCreateProof(request) ==
    /\ k_pc \in {"idle", "executed", "failed"}
    /\ k_req' = request
    /\ k_args' = CreateProofArgs(request)
    /\ k_pre' = k_clock
    /\ k_pc' = "broadcast"
    /\ k_got' = NoGotProof
    /\ UNCHANGED <<k_clock, k_store, nonChainVars>>

\* The transaction is executed in a block `delay` seconds later: the contract
\* rejects a proof_id that exists, and stores the record otherwise.
ChainExecute(delay) ==
    /\ k_pc = "broadcast"
    /\ k_clock + delay <= MaxClock
    /\ k_clock' = k_clock + delay
    /\ IF k_store[k_args[2]].exists
       THEN k_pc' = "failed" /\ k_store' = k_store
       ELSE /\ k_pc' = "executed"
            /\ k_store' = [k_store EXCEPT
                             ![k_args[2]] = CertifyAction("erd1alice", k_args, k_clock')]
    /\ k_got' = NoGotProof
    /\ UNCHANGED <<k_req, k_args, k_pre, nonChainVars>>

\* getProof(user, proofId) is called and runs to its return; `answers`: the
\* network provider answers the query (it throws otherwise).
ChainGetProof(user, id, answers) ==
    /\ k_got' = GotProof(user, id, k_pc, answers,
                         ReadCatch("getProof",
                             TryBlock("getProof",
                                 IF answers THEN Response("data", NonErrorThrown)
                                 ELSE Response("throw", Err("backend error")),
                                 ContractGetProof(k_store, user, id))).value)
    /\ UNCHANGED <<k_pc, k_req, k_args, k_pre, k_clock, k_store, nonChainVars>>

ChainNext ==
    \/ \E request \in CreateProofRequests : ChainCreateProof(request)
    \/ \E delay \in {1, 2} : ChainExecute(delay)
    \/ \E user \in Addresses, id \in ProofIds, answers \in BOOLEAN :
           ChainGetProof(user, id, answers)

(***************************************************************************)
(* utils/contractService.ts: validateProofId                                *)
(***************************************************************************)
\* Longest explicit part of a proofId the model tries.
MaxPatternLen == 3

\* if (proofId.length > 100)
MaxProofIdLength == 100

\* [a-zA-Z0-9_-]: a letter, a digit, the underscore, the hyphen.
AllowedIdChars == {"a", "7", "_", "-"}

\* Characters String.prototype.trim removes.
WhitespaceChars == {" "}

\* Characters a proofId is made of: the allowed ones, white space, and one
\* that is neither.
IdChars == AllowedIdChars \cup WhitespaceChars \cup {"!"}

\* A proofId argument: undefined (given = FALSE), or the string made of the
\* characters of `pattern` followed by `pad` copies of `padChar`.
ProofIdOf(given, pattern, padChar, pad) ==
    [given |-> given, pattern |-> pattern, padChar |-> padChar, pad |-> pad]

UndefinedProofId == ProofIdOf(FALSE, <<>>, "a", 0)

ProofIdInputs ==
    {UndefinedProofId}
    \cup {ProofIdOf(TRUE, pattern, padChar, pad) :
            pattern \in UNION {[1..n -> IdChars] : n \in 0..MaxPatternLen},
            padChar \in {"a", " "},
            pad \in {0, MaxProofIdLength - 1, MaxProofIdLength, MaxProofIdLength + 1}}

\* proofId.length
StringLength(id) == Len(id.pattern) + id.pad

\* proofId[i - 1]
CharAt(id, i) == IF i <= Len(id.pattern) THEN id.pattern[i] ELSE id.padChar

\* proofId.trim().length: what is left between the first and the last
\* character that is not white space.
TrimmedLength(id) ==
    LET kept == {i \in 1..StringLength(id) : CharAt(id, i) \notin WhitespaceChars}
        first == CHOOSE i \in kept : \A j \in kept : i <= j
        last == CHOOSE i \in kept : \A j \in kept : i >= j
    IN IF kept = {} THEN 0 ELSE last - first + 1

\* /^[a-zA-Z0-9_-]+$/.test(proofId)
MatchesIdPattern(id) ==
    /\ StringLength(id) >= 1
    /\ \A i \in 1..StringLength(id) : CharAt(id, i) \in AllowedIdChars

\* { valid, error? }
Validation(valid, error) == [called |-> TRUE, valid |-> valid, error |-> error]

NoValidation == [called |-> FALSE, valid |-> FALSE, error |-> NoValue]

\* Faulty variant of validateProofId: the length is checked before the
\* emptiness.
validateProofIdLengthFirst(id) ==
    IF id.given /\ StringLength(id) > MaxProofIdLength
    THEN Validation(FALSE, "Proof ID cannot exceed 100 characters")
    ELSE IF ~id.given \/ StringLength(id) = 0 \/ TrimmedLength(id) = 0
    THEN Validation(FALSE, "Proof ID cannot be empty")
    ELSE IF ~MatchesIdPattern(id)
    THEN Validation(FALSE, "Proof ID can only contain alphanumeric characters, underscores, and hyphens")
    ELSE Validation(TRUE, NoValue)

\* validateProofId(proofId)
validateProofId(id) ==
    IF ~id.given \/ StringLength(id) = 0 \/ TrimmedLength(id) = 0
    THEN Validation(FALSE, "Proof ID cannot be empty")
    ELSE IF StringLength(id) > MaxProofIdLength
    THEN Validation(FALSE, "Proof ID cannot exceed 100 characters")
    ELSE IF ~MatchesIdPattern(id)
    THEN Validation(FALSE, "Proof ID can only contain alphanumeric characters, underscores, and hyphens")
    ELSE Validation(TRUE, NoValue)

\* A caller validates a proofId.  The function is pure: each behaviour
\* follows one call.
CallValidateProofId(id) ==
    /\ ~v_ret.called
    /\ v_id' = id
    /\ v_ret' = validateProofId(id)
    /\ UNCHANGED nonValidateVars

ValidateNext == ~v_ret.called /\ \E id \in ProofIdInputs : CallValidateProofId(id)

(***************************************************************************)
(* The argument lists of createProof / updateProof (services) and of       *)
(* certifyAction / updateProof (utils)                                     *)
(***************************************************************************)
UpdateProofRequests ==
    [proof_id : ProofIds, new_proof_text : ProofTexts, new_metadata : Metadatas]

\* The args of updateProof's contract call.
UpdateProofArgs(request) ==
    IF MetadataProvided(request.new_metadata)
    THEN <<request.proof_id, request.new_proof_text, request.new_metadata>>
    ELSE <<request.proof_id, request.new_proof_text>>

CertifyActionParams ==
    [proofText : ProofTexts, proofId : ProofIds, metadata : Metadatas]

UpdateProofParams ==
    [proofId : ProofIds, newProofText : ProofTexts, newMetadata : Metadatas]

\* BytesValue.fromUTF8(text)
BytesValue(text) == [type |-> "bytes", isSet |-> TRUE, value |-> text]

\* new OptionalValue(BytesValue.fromUTF8(text))
OptionalValue(text) == [type |-> "optional", isSet |-> TRUE, value |-> text]

\* new OptionalValue()
EmptyOptionalValue == [type |-> "optional", isSet |-> FALSE, value |-> NoValue]

\* The args of the utils certifyAction.
CertifyActionArgs(params) ==
    <<BytesValue(params.proofText), BytesValue(params.proofId),
      IF MetadataProvided(params.metadata)
      THEN OptionalValue(params.metadata)
      ELSE EmptyOptionalValue>>

\* The args of the utils updateProof.
UtilUpdateProofArgs(params) ==
    <<BytesValue(params.proofId), BytesValue(params.newProofText),
      IF MetadataProvided(params.newMetadata)
      THEN OptionalValue(params.newMetadata)
      ELSE EmptyOptionalValue>>

\* createProof(request) builds its args.
BuildCreateProofArgs(request) ==
    /\ a_fn' = "createProof"
    /\ a_text' = request.proof_text
    /\ a_id' = request.proof_id
    /\ a_metadata' = request.metadata
    /\ a_args' = CreateProofArgs(request)
    /\ UNCHANGED nonArgVars

\* updateProof(request) builds its args.
BuildUpdateProofArgs(request) ==
    /\ a_fn' = "updateProof"
    /\ a_text' = request.new_proof_text
    /\ a_id' = request.proof_id
    /\ a_metadata' = request.new_metadata
    /\ a_args' = UpdateProofArgs(request)
    /\ UNCHANGED nonArgVars

\* The utils certifyAction(params) builds its args.
BuildCertifyActionArgs(params) ==
    /\ a_fn' = "utils.certifyAction"
    /\ a_text' = params.proofText
    /\ a_id' = params.proofId
    /\ a_metadata' = params.metadata
    /\ a_args' = CertifyActionArgs(params)
    /\ UNCHANGED nonArgVars

\* The utils updateProof(params) builds its args.
BuildUtilUpdateProofArgs(params) ==
    /\ a_fn' = "utils.updateProof"
    /\ a_text' = params.newProofText
    /\ a_id' = params.proofId
    /\ a_metadata' = params.newMetadata
    /\ a_args' = UtilUpdateProofArgs(params)
    /\ UNCHANGED nonArgVars

ArgsNext ==
    /\ a_fn = "none"
    /\ \/ \E request \in CreateProofRequests : BuildCreateProofArgs(request)
       \/ \E request \in UpdateProofRequests : BuildUpdateProofArgs(request)
       \/ \E params \in CertifyActionParams : BuildCertifyActionArgs(params)
       \/ \E params \in UpdateProofParams : BuildUtilUpdateProofArgs(params)

(***************************************************************************)
(* Dashboard.handleCreateProof: createProof, waitForTransaction, refresh   *)
(***************************************************************************)
TransactionState(isLoading, hash, status, error) ==
    [isLoading |-> isLoading, hash |-> hash, status |-> status, error |-> error]

\* The reads of loadUserProofs and of loadStats (one Promise.all of two).
UserProofsReads == <<"getUserProofs">>

StatsReads == <<"getUserProofCount", "getTotalProofs">>

\* waitForTransaction(txHash) is called without maxRetries: the default of
\* the parameter, scaled down to the bound of the polling model.
DefaultMaxRetries == MaxRetries

\* Faulty variant of AfterWait: the refresh starts whatever the poll did.
AfterWaitRefreshesAnyway(result) == "userProofs"

\* Where handleCreateProof continues when `await waitForTransaction` settles:
\* with the statements after it, or in its catch block.
AfterWait(result) == IF result.kind = "return" THEN "userProofs" ELSE "failed"

\* handleCreateProof(proofData) is called in a render whose
\* walletState.address is `address`.
handleCreateProof(address) ==
    /\ f_pc = "idle"
    /\ c_pc = "idle"
    /\ IF address \in {NoValue, ""}
       THEN f_pc' = "skipped" /\ f_tx' = f_tx
       ELSE \* setTransaction({ isLoading: true }), then createProof is called
            /\ f_pc' = "create"
            /\ f_tx' = TransactionState(TRUE, NoValue, NoValue, NoValue)
    /\ UNCHANGED <<f_reads, nonFlowVars>>

\* Faulty variant of FlowCreateSettles: the flow goes on to the poll although
\* createProof threw.
FlowCreateSettlesIgnoresThrow ==
    /\ f_pc = "create"
    /\ m_pc = "idle"
    /\ ret.op = "createProof"
    /\ f_pc' = "wait"
    /\ f_tx' = TransactionState(TRUE, ret.hash, "pending", NoValue)
    /\ UNCHANGED <<f_reads, nonFlowVars>>

\* await contractService.createProof(...) settles with what the call left in
\* ret: the hash, or the error its catch block threw.
FlowCreateSettles ==
    /\ f_pc = "create"
    /\ m_pc = "idle"
    /\ ret.op = "createProof"
    /\ IF ret.kind = "throw"
       THEN /\ f_pc' = "failed"
            /\ f_tx' = TransactionState(FALSE, NoValue, "failed",
                                        MessageOf(ret.error, "Creation failed"))
       ELSE \* setTransaction(pending), then waitForTransaction is called
            /\ f_pc' = "wait"
            /\ f_tx' = TransactionState(TRUE, ret.hash, "pending", NoValue)
    /\ UNCHANGED <<f_reads, nonFlowVars>>

\* await contractService.waitForTransaction(txHash) settles: on a return
\* setTransaction(success) and loadUserProofs calls getUserProofs, on a throw
\* the catch block runs.
FlowWaitSettles ==
    /\ f_pc = "wait"
    /\ w_pc \in {"returned", "raised"}
    /\ f_pc' = AfterWait(w_result)
    /\ IF AfterWait(w_result) = "userProofs"
       THEN /\ f_tx' = TransactionState(FALSE, f_tx.hash, "success", NoValue)
            /\ f_reads' = f_reads \o UserProofsReads
       ELSE /\ f_tx' = TransactionState(FALSE, NoValue, "failed",
                                        MessageOf(w_result.error, "Creation failed"))
            /\ f_reads' = f_reads
    /\ UNCHANGED nonFlowVars

\* await loadUserProofs() settles (getUserProofs returned its list, or the
\* empty list after a failed query): loadStats calls its two reads.
FlowUserProofsSettles ==
    /\ f_pc = "userProofs"
    /\ f_pc' = "stats"
    /\ f_reads' = f_reads \o StatsReads
    /\ UNCHANGED <<f_tx, nonFlowVars>>

\* await loadStats() settles: setShowCreateModal(false), the timer is set.
FlowStatsSettles ==
    /\ f_pc = "stats"
    /\ f_pc' = "done"
    /\ UNCHANGED <<f_tx, f_reads, nonFlowVars>>

\* The 5-second timer fires: setTransaction({ isLoading: false }).
FlowTimerFires ==
    /\ f_pc = "done"
    /\ f_pc' = "cleared"
    /\ f_tx' = TransactionState(FALSE, NoValue, NoValue, NoValue)
    /\ UNCHANGED <<f_reads, nonFlowVars>>

\* A wallet is connected (or not) before the form is submitted; then one run
\* of handleCreateProof with the calls it awaits.
CreateFlowNext ==
    \/ /\ f_pc = "idle"
       /\ \/ \E p \in ProviderIds, installed \in BOOLEAN : connectWallet(p, installed)
          \/ \E o \in Outcomes({"ok"}) : ConnectInitSettles(o)
          \/ \E o \in Outcomes(Addresses), accountThrows \in BOOLEAN :
                 ConnectLoginSettles(o, accountThrows)
          \/ \E o \in Outcomes({"0"}), setItemThrows \in BOOLEAN :
                 ConnectSyncSettles(o, setItemThrows)
    \/ \E address \in Addresses \cup {NoValue} : handleCreateProof(address)
    \/ /\ f_pc = "create"
       /\ ret.op # "createProof"
       /\ \/ \E build \in Outcomes({"built"}) : MutateStart("createProof", build)
          \/ \E o \in Outcomes({"ok"}) : SignSettles(o)
          \/ \E o \in Outcomes(TxHashes) : BroadcastSettles(o)
    \/ FlowCreateSettles
    \/ /\ f_pc = "wait"
       /\ \/ w_pc = "idle" /\ waitForTransaction(DefaultMaxRetries)
          \/ \E answer \in PollAnswers : getTransactionStatus(answer)
          \/ WaitElapsed
    \/ FlowWaitSettles
    \/ FlowUserProofsSettles
    \/ FlowStatsSettles
    \/ FlowTimerFires

(***************************************************************************)
(* The Dashboard component: its state and its handlers                     *)
(***************************************************************************)
\* The number of handleCreateProof runs of one visit.
MaxFlows == 2

\* The component's walletState.
UiWallet(isConnected, isLoading, address) ==
    [isConnected |-> isConnected, isLoading |-> isLoading, address |-> address]

\* What walletService.autoReconnect / connectWallet resolve with, as far as
\* the component reads it: a connected WalletState with an address, or a
\* WalletState with isConnected: false.
ConnectAnswers ==
    {UiWallet(TRUE, FALSE, a) : a \in Addresses} \cup {UiWallet(FALSE, FALSE, NoValue)}

\* What getUserProofs resolves with.
ProofLists == {<<>>, <<"X">>, <<"X", "Y">>}

NoStats == [userCount |-> 0, totalCount |-> 0]

\* What getUserProofCount and getTotalProofs resolve with.
StatAnswers == {NoStats, [userCount |-> 1, totalCount |-> 2]}

\* The main screen (create, refresh, disconnect) is rendered.
MainScreen == ui_wallet.isConnected /\ ~ui_wallet.isLoading

\* The effect on [walletState.isConnected, walletState.address] after
\* walletState became `state`: loadUserProofs() and loadStats() are called.
EffectLoads(state) ==
    /\ <<state.isConnected, state.address>> # <<ui_wallet.isConnected, ui_wallet.address>>
    /\ state.isConnected
    /\ state.address \notin {NoValue, ""}

\* handleWalletConnect(providerId) is called: setWalletState(isLoading: true),
\* then connectWallet is awaited.
handleWalletConnect ==
    /\ ~ui_wallet.isLoading
    /\ ~ui_conn
    /\ ui_wallet' = [ui_wallet EXCEPT !.isLoading = TRUE]
    /\ ui_conn' = TRUE
    /\ UNCHANGED <<ui_disc, ui_cleared, ui_proofs, ui_stats, ui_loadProofs, ui_loadStats,
                   ui_modal, ui_tx, ui_pc, ui_hash, ui_flows, ui_timers, nonDashVars>>

\* The autoReconnect of initializeWallet or the connectWallet of
\* handleWalletConnect resolves: setWalletState(state), and the effect runs.
UiConnectSettles(state) ==
    /\ ui_conn
    /\ ui_conn' = FALSE
    /\ ui_wallet' = state
    /\ ui_cleared' = (ui_cleared /\ ~state.isConnected)
    /\ ui_loadProofs' = (ui_loadProofs \/ EffectLoads(state))
    /\ ui_loadStats' = (ui_loadStats \/ EffectLoads(state))
    /\ UNCHANGED <<ui_disc, ui_proofs, ui_stats, ui_modal, ui_tx, ui_pc, ui_hash,
                   ui_flows, ui_timers, nonDashVars>>

\* handleWalletDisconnect() is called: disconnectWallet is awaited.
handleWalletDisconnect ==
    /\ MainScreen
    /\ ~ui_disc
    /\ ui_disc' = TRUE
    /\ UNCHANGED <<ui_wallet, ui_conn, ui_cleared, ui_proofs, ui_stats, ui_loadProofs,
                   ui_loadStats, ui_modal, ui_tx, ui_pc, ui_hash, ui_flows, ui_timers,
                   nonDashVars>>

\* await walletService.disconnectWallet() resolves: the wallet state, the
\* proofs and the stats are reset.
UiDisconnectSettles ==
    /\ ui_disc
    /\ ui_disc' = FALSE
    /\ ui_wallet' = UiWallet(FALSE, FALSE, NoValue)
    /\ ui_proofs' = <<>>
    /\ ui_stats' = NoStats
    /\ ui_cleared' = TRUE
    /\ UNCHANGED <<ui_conn, ui_loadProofs, ui_loadStats, ui_modal, ui_tx, ui_pc, ui_hash,
                   ui_flows, ui_timers, nonDashVars>>

\* The refresh button calls loadUserProofs.
UiRefreshClicked ==
    /\ MainScreen
    /\ ~ui_loadProofs
    /\ ui_wallet.address \notin {NoValue, ""}
    /\ ui_loadProofs' = TRUE
    /\ UNCHANGED <<ui_wallet, ui_conn, ui_disc, ui_cleared, ui_proofs, ui_stats, ui_loadStats,
                   ui_modal, ui_tx, ui_pc, ui_hash, ui_flows, ui_timers, nonDashVars>>

\* The getUserProofs of a loadUserProofs resolves: setProofs(userProofs).
UiLoadProofsSettles(userProofs) ==
    /\ ui_loadProofs
    /\ ui_loadProofs' = FALSE
    /\ ui_proofs' = userProofs
    /\ UNCHANGED <<ui_wallet, ui_conn, ui_disc, ui_cleared, ui_stats, ui_loadStats, ui_modal,
                   ui_tx, ui_pc, ui_hash, ui_flows, ui_timers, nonDashVars>>

\* The Promise.all of a loadStats resolves: setStats({ userCount, totalCount }).
UiLoadStatsSettles(counts) ==
    /\ ui_loadStats
    /\ ui_loadStats' = FALSE
    /\ ui_stats' = counts
    /\ UNCHANGED <<ui_wallet, ui_conn, ui_disc, ui_cleared, ui_proofs, ui_loadProofs, ui_modal,
                   ui_tx, ui_pc, ui_hash, ui_flows, ui_timers, nonDashVars>>

\* The Create Proof button (disabled while transaction.isLoading) is clicked:
\* setShowCreateModal(true).
UiOpenCreateModal ==
    /\ MainScreen
    /\ ~ui_tx.isLoading
    /\ ~ui_modal
    /\ ui_modal' = TRUE
    /\ UNCHANGED <<ui_wallet, ui_conn, ui_disc, ui_cleared, ui_proofs, ui_stats, ui_loadProofs,
                   ui_loadStats, ui_tx, ui_pc, ui_hash, ui_flows, ui_timers, nonDashVars>>

\* The modal calls handleCreateProof(proofData) while no earlier run is
\* awaiting: setTransaction({ isLoading: true }), then createProof is awaited.
UiCreateSubmitted ==
    /\ MainScreen
    /\ ui_modal
    /\ ui_pc = "idle"
    /\ ui_flows < MaxFlows
    /\ ui_flows' = ui_flows + 1
    /\ IF ui_wallet.address \in {NoValue, ""}
       THEN UNCHANGED <<ui_tx, ui_pc>>
       ELSE /\ ui_tx' = TransactionState(TRUE, NoValue, NoValue, NoValue)
            /\ ui_pc' = "create"
    /\ UNCHANGED <<ui_wallet, ui_conn, ui_disc, ui_cleared, ui_proofs, ui_stats, ui_loadProofs,
                   ui_loadStats, ui_modal, ui_hash, ui_timers, nonDashVars>>

\* await contractService.createProof(...) settles.
UiCreateSettles(outcome) ==
    /\ ui_pc = "create"
    /\ IF outcome.ok
       THEN /\ ui_hash' = outcome.value
            /\ ui_tx' = TransactionState(TRUE, outcome.value, "pending", NoValue)
            /\ ui_pc' = "wait"
       ELSE /\ ui_hash' = ui_hash
            /\ ui_tx' = TransactionState(FALSE, NoValue, "failed",
                                         MessageOf(outcome.error, "Creation failed"))
            /\ ui_pc' = "idle"
    /\ UNCHANGED <<ui_wallet, ui_conn, ui_disc, ui_cleared, ui_proofs, ui_stats, ui_loadProofs,
                   ui_loadStats, ui_modal, ui_flows, ui_timers, nonDashVars>>

\* await contractService.waitForTransaction(txHash) settles with `result`.
UiWaitSettles(result) ==
    /\ ui_pc = "wait"
    /\ IF AfterWait(result) = "userProofs"
       THEN /\ ui_tx' = TransactionState(FALSE, ui_hash, "success", NoValue)
            /\ ui_pc' = "userProofs"
       ELSE /\ ui_tx' = TransactionState(FALSE, NoValue, "failed",
                                         MessageOf(result.error, "Creation failed"))
            /\ ui_pc' = "idle"
    /\ UNCHANGED <<ui_wallet, ui_conn, ui_disc, ui_cleared, ui_proofs, ui_stats, ui_loadProofs,
                   ui_loadStats, ui_modal, ui_hash, ui_flows, ui_timers, nonDashVars>>

\* await loadUserProofs() of the run settles: setProofs, then loadStats.
UiFlowProofsSettle(userProofs) ==
    /\ ui_pc = "userProofs"
    /\ ui_proofs' = userProofs
    /\ ui_pc' = "stats"
    /\ UNCHANGED <<ui_wallet, ui_conn, ui_disc, ui_cleared, ui_stats, ui_loadProofs,
                   ui_loadStats, ui_modal, ui_tx, ui_hash, ui_flows, ui_timers, nonDashVars>>

\* await loadStats() of the run settles: setStats, setShowCreateModal(false),
\* and the 5-second timer is set.
UiFlowStatsSettle(counts) ==
    /\ ui_pc = "stats"
    /\ ui_stats' = counts
    /\ ui_modal' = FALSE
    /\ ui_timers' = ui_timers + 1
    /\ ui_pc' = "idle"
    /\ UNCHANGED <<ui_wallet, ui_conn, ui_disc, ui_cleared, ui_proofs, ui_loadProofs,
                   ui_loadStats, ui_tx, ui_hash, ui_flows, nonDashVars>>

\* A 5-second timer fires: setTransaction({ isLoading: false }).
UiTimerFires ==
    /\ ui_timers > 0
    /\ ui_timers' = ui_timers - 1
    /\ ui_tx' = TransactionState(FALSE, NoValue, NoValue, NoValue)
    /\ UNCHANGED <<ui_wallet, ui_conn, ui_disc, ui_cleared, ui_proofs, ui_stats, ui_loadProofs,
                   ui_loadStats, ui_modal, ui_pc, ui_hash, ui_flows, nonDashVars>>

DashboardNext ==
    \/ handleWalletConnect
    \/ \E state \in ConnectAnswers : UiConnectSettles(state)
    \/ handleWalletDisconnect
    \/ UiDisconnectSettles
    \/ UiRefreshClicked
    \/ \E userProofs \in ProofLists : UiLoadProofsSettles(userProofs)
    \/ \E counts \in StatAnswers : UiLoadStatsSettles(counts)
    \/ UiOpenCreateModal
    \/ UiCreateSubmitted
    \/ \E outcome \in Outcomes(TxHashes) : UiCreateSettles(outcome)
    \/ \E s \in SuccessStatuses : UiWaitSettles(Returned(s))
    \/ \E e \in ThrownValues \cup {TimeoutError} : UiWaitSettles(Raised(e))
    \/ \E userProofs \in ProofLists : UiFlowProofsSettle(userProofs)
    \/ \E counts \in StatAnswers : UiFlowStatsSettle(counts)
    \/ UiTimerFires

\* The first page load: the modules are evaluated (the exported singletons are
\* constructed, currentProvider = null) over whatever localStorage holds; no
\* call is in progress.  The clock reads one millisecond more than the
\* connectedAt of the blob an earlier visit may have left.
(***************************************************************************)
(* The utils ContractService: its signing backend and the methods that     *)
(* need it.  The wallet providers and the network provider are libraries;  *)
(* each awaited call on them resolves or rejects.                          *)
(***************************************************************************)
\* The values connectWallet is called with: its four declared provider types
\* and one that is none of them.
UtilProviderTypes == {"extension", "webwallet", "walletconnect", "hardware", "metamask"}

\* The provider types whose case awaits walletProvider.init().
InitialisedProviderTypes == {"extension", "walletconnect", "hardware"}

\* The methods guarded by `if (!this.walletProvider)`.
WalletMethods == {"getUserAddress", "certifyAction", "updateProof"}

\* The outcome of a completed method: whether it returned or threw, the
\* thrown value, and whether it called the network provider.
UtilRet(op, kind, error, network) ==
    [op |-> op, kind |-> kind, error |-> error, network |-> network]

NoUtilRet == UtilRet("none", "none", NonErrorThrown, FALSE)

WalletNotConnected == Err("Wallet not connected")

UnsupportedWalletProvider(providerType) ==
    Err("Unsupported wallet provider: " \o providerType)

\* connectWallet(providerType) up to its first await, or to its end.
UtilConnectWallet(providerType) ==
    /\ uc_pc = "idle"
    /\ IF providerType \in InitialisedProviderTypes
       THEN /\ walletProvider' = providerType
            /\ uc_pc' = "init"
            /\ uc_op' = "connectWallet"
            /\ UNCHANGED <<uc_ret, uc_thrown, uc_succeeded>>
       ELSE IF providerType = "webwallet"
       THEN /\ walletProvider' = providerType
            /\ uc_ret' = UtilRet("connectWallet", "return", NonErrorThrown, FALSE)
            /\ uc_succeeded' = TRUE
            /\ UNCHANGED <<uc_pc, uc_op, uc_thrown>>
       ELSE /\ uc_ret' = UtilRet("connectWallet", "throw",
                              UnsupportedWalletProvider(providerType), FALSE)
            /\ uc_thrown' = TRUE
            /\ UNCHANGED <<walletProvider, uc_pc, uc_op, uc_succeeded>>
    /\ UNCHANGED nonUtilConnVars

\* await this.walletProvider.init() settles; the catch block rethrows.
UtilInitSettles(outcome) ==
    /\ uc_pc = "init"
    /\ uc_pc' = "idle"
    /\ uc_op' = "none"
    /\ IF outcome.kind = "throw"
       THEN /\ uc_ret' = UtilRet("connectWallet", "throw", outcome.error, FALSE)
            /\ uc_thrown' = TRUE
            /\ UNCHANGED uc_succeeded
       ELSE /\ uc_ret' = UtilRet("connectWallet", "return", NonErrorThrown, FALSE)
            /\ uc_succeeded' = TRUE
            /\ UNCHANGED uc_thrown
    /\ UNCHANGED <<walletProvider, nonUtilConnVars>>

\* getUserAddress(), certifyAction(params) or updateProof(params) up to the
\* await of walletProvider.getAddress(), which the latter two reach through
\* getUserAccount.
UtilWalletMethod(op) ==
    /\ uc_pc = "idle"
    /\ IF walletProvider = NoValue
       THEN /\ uc_ret' = UtilRet(op, "throw", WalletNotConnected, FALSE)
            /\ UNCHANGED <<uc_pc, uc_op>>
       ELSE /\ uc_pc' = "getAddress"
            /\ uc_op' = op
            /\ UNCHANGED uc_ret
    /\ UNCHANGED <<walletProvider, uc_thrown, uc_succeeded, nonUtilConnVars>>

\* await this.walletProvider.getAddress() settles.  getUserAddress returns
\* the address; getUserAccount goes on to this.provider.getAccount.
UtilGetAddressSettles(outcome) ==
    /\ uc_pc = "getAddress"
    /\ IF outcome.kind = "throw"
       THEN /\ uc_ret' = UtilRet(uc_op, "throw", outcome.error, FALSE)
            /\ uc_pc' = "idle"
            /\ uc_op' = "none"
       ELSE IF uc_op = "getUserAddress"
       THEN /\ uc_ret' = UtilRet(uc_op, "return", NonErrorThrown, FALSE)
            /\ uc_pc' = "idle"
            /\ uc_op' = "none"
       ELSE /\ uc_pc' = "getAccount"
            /\ UNCHANGED <<uc_op, uc_ret>>
    /\ UNCHANGED <<walletProvider, uc_thrown, uc_succeeded, nonUtilConnVars>>

\* await this.provider.getAccount(account.address) settles.
UtilGetAccountSettles(outcome) ==
    /\ uc_pc = "getAccount"
    /\ IF outcome.kind = "throw"
       THEN /\ uc_ret' = UtilRet(uc_op, "throw", outcome.error, TRUE)
            /\ uc_pc' = "idle"
            /\ uc_op' = "none"
       ELSE /\ uc_pc' = "send"
            /\ UNCHANGED <<uc_op, uc_ret>>
    /\ UNCHANGED <<walletProvider, uc_thrown, uc_succeeded, nonUtilConnVars>>

\* The rest of certifyAction or updateProof settles: signTransaction,
\* sendTransaction and waitForTransaction in turn.
UtilSendSettles(outcome) ==
    /\ uc_pc = "send"
    /\ uc_ret' = UtilRet(uc_op, outcome.kind, outcome.error, TRUE)
    /\ uc_pc' = "idle"
    /\ uc_op' = "none"
    /\ UNCHANGED <<walletProvider, uc_thrown, uc_succeeded, nonUtilConnVars>>

\* The ways an awaited library call settles.
LibraryOutcomes ==
    {[kind |-> "return", error |-> NonErrorThrown]}
       \cup {[kind |-> "throw", error |-> e] : e \in ThrownValues}

UtilConnectNext ==
    \/ \E providerType \in UtilProviderTypes : UtilConnectWallet(providerType)
    \/ \E outcome \in LibraryOutcomes : UtilInitSettles(outcome)
    \/ \E op \in WalletMethods : UtilWalletMethod(op)
    \/ \E outcome \in LibraryOutcomes : UtilGetAddressSettles(outcome)
    \/ \E outcome \in LibraryOutcomes : UtilGetAccountSettles(outcome)
    \/ \E outcome \in LibraryOutcomes : UtilSendSettles(outcome)

Init ==
    /\ w_pc = "idle"
    /\ w_max = 0
    /\ w_i = 0
    /\ w_polls = <<>>
    /\ w_waits = 0
    /\ w_result = NoResult
    /\ storage \in InitialStorage
    /\ currentProvider = NoProvider
    /\ now = 1
    /\ ticks = 0
    /\ ret = NoRet
    /\ c_pc = "idle"
    /\ c_providerId = NoValue
    /\ c_address = NoValue
    /\ c_caller = "ui"
    /\ d_pc = "idle"
    /\ m_pc = "idle"
    /\ m_op = NoValue
    /\ m_calls = <<>>
    /\ r_pc = "idle"
    /\ r_op = "none"
    /\ r_ret = NoReadRet
    /\ u_pc = "idle"
    /\ u_op = "none"
    /\ u_ret = NoReadRet
    /\ k_pc = "idle"
    /\ k_req = [proof_text |-> "T", proof_id |-> "X", metadata |-> NoValue]
    /\ k_args = <<>>
    /\ k_pre = 0
    /\ k_clock = 0
    /\ k_store = [id \in ProofIds |-> NoStoredProof]
    /\ k_got = NoGotProof
    /\ v_id = UndefinedProofId
    /\ v_ret = NoValidation
    /\ f_pc = "idle"
    /\ f_tx = TransactionState(FALSE, NoValue, NoValue, NoValue)
    /\ f_reads = <<>>
    /\ a_fn = "none"
    /\ a_text = NoValue
    /\ a_id = NoValue
    /\ a_metadata = NoValue
    /\ a_args = <<>>
    /\ ui_wallet = UiWallet(FALSE, TRUE, NoValue)
    /\ ui_conn = TRUE
    /\ ui_disc = FALSE
    /\ ui_cleared = FALSE
    /\ ui_proofs = <<>>
    /\ ui_stats = NoStats
    /\ ui_loadProofs = FALSE
    /\ ui_loadStats = FALSE
    /\ ui_modal = FALSE
    /\ ui_tx = TransactionState(FALSE, NoValue, NoValue, NoValue)
    /\ ui_pc = "idle"
    /\ ui_hash = NoValue
    /\ ui_flows = 0
    /\ ui_timers = 0
    /\ walletProvider = NoValue
    /\ uc_pc = "idle"
    /\ uc_op = "none"
    /\ uc_ret = NoUtilRet
    /\ uc_thrown = FALSE
    /\ uc_succeeded = FALSE

(***************************************************************************)
(* Specifications                                                          *)
(***************************************************************************)
\* One waitForTransaction call after another.
SpecWait == Init /\ [][WaitNext]_vars

\* SpecWait where every getTransactionStatus that was issued answers and every
\* 2-second timer that was set fires.
SpecWaitFair ==
    /\ Init
    /\ [][WaitNext]_vars
    /\ WF_vars(\E answer \in PollAnswers : getTransactionStatus(answer))
    /\ WF_vars(WaitElapsed)

\* One connectWallet call, made right after the page load.
SpecFirstConnect == Init /\ [][FirstConnectNext]_vars

\* The wallet session manager and the mutating calls, from the first page load.
SpecWallet == Init /\ [][WalletNext]_vars

\* One read operation after another.
SpecRead == Init /\ [][ReadNext]_vars

\* One read method of the utils ContractService after another.
SpecUtilRead == Init /\ [][UtilReadNext]_vars

\* createProof calls, the execution of their transactions and getProof calls.
SpecChain == Init /\ [][ChainNext]_vars

\* One validateProofId call on any of the inputs.
SpecValidate == Init /\ [][ValidateNext]_vars

\* One mutating call on any request, up to its argument list.
SpecArgs == Init /\ [][ArgsNext]_vars

\* The Dashboard component from its mount, the calls it awaits answering in
\* any order.
SpecDashboard == Init /\ [][DashboardNext]_vars

SpecUtilConnect == Init /\ [][UtilConnectNext]_vars

\* SpecDashboard where the reads of a create flow's refresh answer and the
\* timers that were set fire.
SpecDashboardFair ==
    /\ Init
    /\ [][DashboardNext]_vars
    /\ WF_vars(\E userProofs \in ProofLists : UiFlowProofsSettle(userProofs))
    /\ WF_vars(\E counts \in StatAnswers : UiFlowStatsSettle(counts))
    /\ WF_vars(UiTimerFires)

\* One run of the create flow of the dashboard.
SpecCreateFlow == Init /\ [][CreateFlowNext]_vars

(***************************************************************************)
(* Properties of waitForTransaction (checked under SpecWait)               *)
(***************************************************************************)
\* The k-th status poll of the current call answered a status in `set`.
PollIn(k, set) == w_polls[k].kind = "status" /\ w_polls[k].status \in set

\* C1: a poll that reports `failed` or `invalid` is the last poll of the call:
\* the error is raised at once, no further poll is issued and no wait follows
\* it, whatever maxRetries is and on whichever attempt the status is seen.
C1_FailureRaisesImmediately ==
    \A k \in 1..Len(w_polls) :
        PollIn(k, {"failed", "invalid"})
            => /\ k = Len(w_polls)
               /\ w_pc = "raised"
               /\ w_result.kind = "throw"
               /\ w_waits = k - 1

\* C2: the first poll that reports `success` or `executed` ends the call: it
\* returns that status, no further poll is issued and no error is raised,
\* whatever the earlier polls reported.
C2_SuccessReturnsAtOnce ==
    \A k \in 1..Len(w_polls) :
        PollIn(k, {"success", "executed"})
            => /\ k = Len(w_polls)
               /\ w_pc = "returned"
               /\ w_result.kind = "return"
               /\ w_result.status = w_polls[k].status

\* C2 witness: a call returned on its third poll, after two polls that
\* reported non-terminal statuses.
C2_Witness ==
    /\ w_pc = "returned"
    /\ Len(w_polls) = 3
    /\ PollIn(1, {"pending"})
    /\ PollIn(2, {"unknown"})
    /\ PollIn(3, {"executed"})

TimeoutRaised ==
    /\ w_pc = "raised"
    /\ w_result.kind = "throw"
    /\ w_result.error = [isError |-> TRUE, message |-> "Transaction timeout"]

\* C3: the call never polls more than maxRetries times, raises the timeout
\* error only after exactly maxRetries polls, and when every poll answered a
\* non-terminal status it ends by raising the timeout error after exactly
\* maxRetries polls.
C3_TimeoutAfterExactlyMaxRetries ==
    /\ Len(w_polls) <= w_max
    /\ TimeoutRaised => Len(w_polls) = w_max
    /\ ( /\ w_pc \in {"returned", "raised"}
         /\ \A k \in 1..Len(w_polls) : PollIn(k, {"pending", "unknown"}) )
       => (TimeoutRaised /\ Len(w_polls) = w_max /\ w_waits = w_max)

\* C3 witness: a call with maxRetries = 3 raised the timeout error after three
\* polls that all answered `pending`.
C3_Witness ==
    /\ TimeoutRaised
    /\ w_max = 3
    /\ Len(w_polls) = 3
    /\ \A k \in 1..3 : PollIn(k, {"pending"})

\* C26: a status query that throws on an attempt other than the last is
\* swallowed: the call goes on, waits once and polls again.  A status query
\* that throws on the last attempt ends the call, which raises the value the
\* query threw, unchanged, and not the timeout error.
C26_QueryErrorRetriedUntilLast ==
    /\ w_waits \in {Len(w_polls) - 1, Len(w_polls)} \cup {0}
    /\ \A k \in 1..Len(w_polls) :
          w_polls[k].kind = "throw"
             => IF k = w_max
                THEN /\ k = Len(w_polls)
                     /\ w_pc = "raised"
                     /\ w_result = Raised(w_polls[k].error)
                     /\ w_waits = k - 1
                ELSE IF k = Len(w_polls)
                THEN /\ w_result = NoResult
                     /\ \/ w_pc = "waitCatch" /\ w_waits = k - 1
                        \/ w_pc = "poll" /\ w_waits = k
                ELSE w_waits >= k

\* C26 witness: a call with maxRetries = 3 whose first query threw went on to
\* a second poll, and its third query threw a value that is not an Error,
\* which the call raised as it was.
C26_Witness ==
    /\ w_max = 3
    /\ Len(w_polls) = 3
    /\ w_polls[1].kind = "throw"
    /\ PollIn(2, {"pending"})
    /\ w_polls[3] = QueryThrows(NonErrorThrown)
    /\ w_pc = "raised"
    /\ w_result = Raised(NonErrorThrown)
    /\ w_waits = 2

(***************************************************************************)
(* Properties of the wallet session manager and the mutating calls         *)
(* (checked under SpecWallet)                                              *)
(***************************************************************************)
\* The step belongs to a createProof / updateProof call: the call completes in
\* it, or its position changes.
MutatingCallStep == ret'.op \in {"createProof", "updateProof"} \/ m_pc' # m_pc

\* The step belongs to an autoReconnect or connectWallet call.
ConnectCallStep == ret'.op \in {"autoReconnect", "connectWallet"} \/ c_pc' # c_pc

\* C4: a createProof or updateProof called while the session is disconnected
\* (getCurrentWalletState reports isConnected = false or no address, or no
\* signing backend is active) fails in the same step, without a sign request
\* or a broadcast having been issued.
C4_DisconnectedMutationFailsFast ==
    [][ ( /\ m_pc = "idle"
          /\ MutatingCallStep
          /\ \/ ~CurrentWalletState(storage).isConnected
             \/ CurrentWalletState(storage).address \in {NoValue, ""}
             \/ currentProvider = "null" )
        => /\ ret'.op \in {"createProof", "updateProof"}
           /\ ret'.kind = "throw"
           /\ ret'.calls = <<>>
           /\ m_pc' = "idle"
           /\ m_calls' = <<>> ]_vars

\* C4 witness: a createProof passed the connected guard on a persisted session
\* but found no signing backend, and failed with no network call issued.
C4_Witness ==
    /\ ret.op = "createProof"
    /\ ret.kind = "throw"
    /\ ret.error.message = "No wallet connected"
    /\ ret.read.kind = "blob"
    /\ currentProvider = "null"
    /\ ret.calls = <<>>

\* C5: for a valid provider id, connectWallet returns either isConnected = true
\* with a non-empty address and no error, or isConnected = false with a
\* non-empty error and no address.
C5_ConnectResultExclusive ==
    (ret.op = "connectWallet" /\ ret.arg \in {"extension", "webwallet", "walletconnect", "ledger"})
        => /\ ret.kind = "return"
           /\ \/ /\ ret.session.isConnected
                 /\ ret.session.address \notin {NoValue, ""}
                 /\ ret.session.error = NoValue
              \/ /\ ~ret.session.isConnected
                 /\ ret.session.error \notin {NoValue, ""}
                 /\ ret.session.address = NoValue

\* C6: connectWallet never throws to its caller: every failure (unsupported
\* id, backend not installed, init, login, account, sync or storage write
\* error) ends in a returned WalletState with isConnected = false, no address
\* and the error field set; an unsupported id never connects.
C6_ConnectNeverThrows ==
    ret.op = "connectWallet"
        => /\ ret.kind = "return"
           /\ ret.path # "ok"
                => /\ ~ret.session.isConnected
                   /\ ret.session.address = NoValue
                   /\ ret.session.error # NoValue
           /\ ret.arg \notin {"extension", "webwallet", "walletconnect", "ledger"}
                => ~ret.session.isConnected

\* C6 witness: a connect whose localStorage.setItem threw returned a
\* disconnected WalletState carrying the error's message.
C6_Witness ==
    /\ ret.op = "connectWallet"
    /\ ret.kind = "return"
    /\ ret.path = "setItem"
    /\ ~ret.session.isConnected
    /\ ret.session.error = "QuotaExceededError"

\* The persisted session is fresh: strictly newer than 24 hours, and its
\* provider is not the web wallet.
FreshSession(stored, time) ==
    /\ stored.kind = "blob"
    /\ stored.connectedAt >= 0
    /\ time - stored.connectedAt < 86400000
    /\ stored.providerId # "webwallet"

\* C8: autoReconnect calls connectWallet only when the persisted session is
\* fresh; with any other parsable persisted state it removes wallet_state and
\* returns isConnected = false without calling connectWallet.
C8_AutoReconnectOnlyWhenFresh ==
    [][ConnectCallStep =>
       \A installed \in BOOLEAN :
         autoReconnect(installed)
         => LET calledConnect == c_pc' # "idle" \/ ret'.op = "connectWallet" IN
            /\ calledConnect => FreshSession(storage, now)
            /\ (storage.kind \in {"blob", "null"} /\ ~FreshSession(storage, now))
                 => /\ ~calledConnect
                    /\ storage'.kind = "absent"
                    /\ ret'.op = "autoReconnect"
                    /\ ret'.kind = "return"
                    /\ ~ret'.session.isConnected
                    /\ currentProvider' = currentProvider]_vars

\* C8 witness: autoReconnect found an extension session persisted exactly 24
\* hours ago, removed it and returned isConnected = false.
C8_Witness ==
    /\ ret.op = "autoReconnect"
    /\ ret.read.kind = "blob"
    /\ ret.read.providerId = "extension"
    /\ ret.read.connectedAt >= 0
    /\ now - ret.read.connectedAt = 86400000
    /\ storage.kind = "absent"
    /\ ~ret.session.isConnected

\* C9: disconnectWallet always returns (never throws) with the active backend
\* cleared and wallet_state removed, also when logout throws or is missing.
C9_DisconnectAlwaysClears ==
    ret.op = "disconnectWallet"
        => /\ ret.kind = "return"
           /\ currentProvider = "null"
           /\ storage.kind = "absent"

\* C9 witness: a disconnect whose logout threw, on a persisted session, ended
\* with backend and storage cleared.
C9_Witness ==
    /\ ret.op = "disconnectWallet"
    /\ ret.path = "logoutThrew"
    /\ ret.read.kind = "blob"
    /\ currentProvider = "null"
    /\ storage.kind = "absent"

\* C10 as stated: disconnected when wallet_state is absent or cannot be parsed;
\* removed when it cannot be parsed; storage unchanged when it is absent or
\* parsable.  (JSON.parse throws on the kinds "corrupt" and "empty" and
\* succeeds on "null" and "blob".)
C10_Original ==
    ret.op = "getCurrentWalletState"
        => /\ ret.read.kind \in {"absent", "corrupt", "empty"}
                => ~ret.session.isConnected
           /\ ret.read.kind \in {"corrupt", "empty"} => storage.kind = "absent"
           /\ ret.read.kind \in {"absent", "null", "blob"} => storage = ret.read

\* C10 amended: getCurrentWalletState returns the disconnected state when
\* wallet_state is absent, the empty string, not parsable, or the JSON null; it
\* removes wallet_state when it is non-empty text that cannot be parsed or is
\* the JSON null; it leaves storage unchanged when wallet_state is absent,
\* the empty string, or parses to a non-null value.
C10_Amended ==
    ret.op = "getCurrentWalletState"
        => /\ ret.kind = "return"
           /\ ret.read.kind \in {"absent", "empty", "corrupt", "null"}
                => (~ret.session.isConnected /\ ret.session.address = NoValue)
           /\ ret.read.kind \in {"corrupt", "null"} => storage.kind = "absent"
           /\ ret.read.kind \in {"absent", "empty", "blob"} => storage = ret.read

\* C10 witness: getCurrentWalletState found the JSON null in wallet_state,
\* returned the disconnected state and removed the key.
C10_Witness ==
    /\ ret.op = "getCurrentWalletState"
    /\ ret.read.kind = "null"
    /\ ~ret.session.isConnected
    /\ storage.kind = "absent"

\* C11: signAndSendTransaction, reached through createProof / updateProof once
\* the guard passed and the transaction was built: with no active backend it
\* fails with 'No wallet connected' and no sign request or broadcast is issued;
\* otherwise the sign request is issued first, the broadcast is issued only
\* when signing succeeded (a signing failure ends the call with an error and
\* no broadcast), and a successful broadcast ends the call with the identifier
\* the broadcast answered.
C11_SignThenBroadcast ==
    [][ /\ ( /\ m_pc = "idle"
              /\ MutatingCallStep
              /\ ret'.path \notin {"guard", "build"} )
            => IF currentProvider = "null"
               THEN /\ ret'.op \in {"createProof", "updateProof"}
                    /\ ret'.kind = "throw"
                    /\ ret'.error.message = "No wallet connected"
                    /\ ret'.calls = <<>>
                    /\ m_pc' = "idle"
                    /\ m_calls' = <<>>
               ELSE /\ m_pc' = "sign"
                    /\ m_calls' = <<"sign">>
                    /\ ret'.op = "none"
        /\ (m_pc = "sign" /\ MutatingCallStep)
            => \A o \in Outcomes({"ok"}) :
                 SignSettles(o)
                 => IF o.ok
                    THEN /\ m_pc' = "broadcast"
                         /\ m_calls' = <<"sign", "broadcast">>
                         /\ ret'.op = "none"
                    ELSE /\ m_pc' = "idle"
                         /\ ret'.op = m_op
                         /\ ret'.kind = "throw"
                         /\ ret'.hash = NoValue
                         /\ ret'.calls = <<"sign">>
        /\ (m_pc = "broadcast" /\ MutatingCallStep)
            => \A o \in Outcomes({"tx1", "tx2"}) :
                 BroadcastSettles(o)
                 => /\ m_calls = <<"sign", "broadcast">>
                    /\ ret'.op = m_op
                    /\ ret'.calls = <<"sign", "broadcast">>
                    /\ IF o.ok
                       THEN ret'.kind = "return" /\ ret'.hash = o.value
                       ELSE ret'.kind = "throw" /\ ret'.hash = NoValue ]_vars

\* C11 witness: an updateProof was signed, then broadcast, and returned the
\* identifier tx2 the broadcast answered.
C11_Witness ==
    /\ ret.op = "updateProof"
    /\ ret.kind = "return"
    /\ ret.path = "ok"
    /\ ret.hash = "tx2"
    /\ ret.calls = <<"sign", "broadcast">>
    /\ currentProvider # "null"

\* C12: a step writes a wallet_state blob only when it completes a connect that
\* returns isConnected = true, and the blob then holds the providerId passed to
\* that connect and the address of the returned WalletState; a connect that
\* returns isConnected = false leaves storage as it was.
C12_BlobWrittenOnlyBySuccessfulConnect ==
    [][ /\ (storage' # storage /\ storage'.kind # "absent")
             => /\ ret'.op = "connectWallet"
                /\ ret'.kind = "return"
                /\ ret'.session.isConnected
        /\ (ret'.op = "connectWallet" /\ ret'.session.isConnected)
             => /\ storage'.kind = "blob"
                /\ storage'.providerId = ret'.arg
                /\ storage'.address = ret'.session.address
                /\ storage'.connectedAt = now'
        /\ (ret'.op = "connectWallet" /\ ~ret'.session.isConnected)
             => storage' = storage ]_vars

\* C12 witness: a walletconnect connect that logged in as erd1bob succeeded
\* over an empty storage and left the blob {walletconnect, erd1bob}.
C12_Witness ==
    /\ ret.op = "connectWallet"
    /\ ret.arg = "walletconnect"
    /\ ret.session.isConnected
    /\ ret.session.address = "erd1bob"
    /\ ret.read.kind = "absent"
    /\ storage.kind = "blob"
    /\ storage.providerId = "walletconnect"
    /\ storage.address = "erd1bob"

\* The mutating call just completed raised an Error whose message is that of
\* the value that was thrown, or `fallback` when that value is not an Error;
\* no identifier is returned.
RaisedToCaller(fallback) ==
    /\ ret.kind = "throw"
    /\ ret.hash = NoValue
    /\ ret.error.isError
    /\ ret.error.message = (IF ret.cause.isError THEN ret.cause.message ELSE fallback)

\* 'Failed to create proof' / 'Failed to update proof'
GenericFallback(op) ==
    IF op = "createProof" THEN "Failed to create proof" ELSE "Failed to update proof"

\* C13 as stated: a failure while building, signing or broadcasting is raised
\* to the caller with the original Error's message, or with 'Failed to create
\* proof' / 'Failed to update proof' when the thrown value is not an Error; no
\* identifier is returned and the failure is not swallowed.
C13_Original ==
    ret.op \in {"createProof", "updateProof"}
        => /\ ret.path \in {"build", "sign", "broadcast"}
                => RaisedToCaller(GenericFallback(ret.op))
           /\ ret.kind = "return" => (ret.path = "ok" /\ ret.hash \in {"tx1", "tx2"})

\* C13 amended: the same, except that a signing or broadcasting failure whose
\* thrown value is not an Error is raised with 'Transaction failed', the
\* fallback of signAndSendTransaction; 'Failed to create proof' / 'Failed to
\* update proof' is the message only for a non-Error thrown while building.
C13_Amended ==
    ret.op \in {"createProof", "updateProof"}
        => /\ ret.path = "build" => RaisedToCaller(GenericFallback(ret.op))
           /\ ret.path \in {"sign", "broadcast"} => RaisedToCaller("Transaction failed")
           /\ ret.kind = "return" => (ret.path = "ok" /\ ret.hash \in {"tx1", "tx2"})

\* C13 witness: a createProof whose broadcast threw a value that is not an
\* Error raised 'Transaction failed' to its caller.
C13_Witness ==
    /\ ret.op = "createProof"
    /\ ret.path = "broadcast"
    /\ ~ret.cause.isError
    /\ ret.kind = "throw"
    /\ ret.error.message = "Transaction failed"
    /\ ret.calls = <<"sign", "broadcast">>

\* The wallet_state a call read was persisted more than 24 hours before the
\* call.
ReadExpired ==
    /\ ret.read.kind = "blob"
    /\ ret.read.connectedAt >= 0
    /\ now - ret.read.connectedAt > 86400000

\* C14: once the persisted wallet_state is older than 24 hours,
\* getCurrentWalletState does not report isConnected = true for it, and a
\* createProof / updateProof that reads it stops at the connected guard.
C14_ExpiredSessionNotConnected ==
    /\ (ret.op = "getCurrentWalletState" /\ ReadExpired) => ~ret.session.isConnected
    /\ (ret.op \in {"createProof", "updateProof"} /\ ReadExpired)
         => (ret.kind = "throw" /\ ret.path = "guard")

\* connectWallet has just returned a WalletState with isConnected = true.
ConnectReturnedConnected ==
    /\ ret.op = "connectWallet"
    /\ ret.kind = "return"
    /\ ret.session.isConnected

\* C21: connect and disconnect calls race on the session state.  A connect
\* that returns isConnected = true has persisted wallet_state for its provider
\* and address, but the active signing backend is either the backend of the
\* call or none: it is none exactly when a disconnect cleared it while the
\* connect was awaiting login or the account sync, in which case the connect
\* wrote wallet_state over the storage that disconnect had emptied.
C21_ConnectDisconnectRace ==
    ConnectReturnedConnected
       => /\ c_pc = "idle"
          /\ storage = Blob(ret.arg, ret.session.address, now)
          /\ CurrentWalletState(storage).isConnected
          /\ currentProvider \in {ret.arg, NoProvider}
          /\ currentProvider = NoProvider => ret.read = Absent

\* C21 witness: both calls have finished, connect has returned
\* isConnected = true and wallet_state is persisted, and there is no active
\* signing backend.
C21_Witness ==
    /\ ConnectReturnedConnected
    /\ c_pc = "idle"
    /\ d_pc = "idle"
    /\ storage.kind = "blob"
    /\ CurrentWalletState(storage).isConnected
    /\ currentProvider = NoProvider

\* autoReconnect has just returned a WalletState with isConnected = false,
\* from its own code or from the connectWallet call it returns the result of.
AutoReconnectReturnedNotConnected ==
    /\ \/ ret.op = "autoReconnect"
       \/ ret.op = "connectWallet" /\ ret.caller = "auto"
    /\ ret.kind = "return"
    /\ ~ret.session.isConnected

\* C24: whenever autoReconnect returns isConnected = false, no wallet_state
\* is left in storage, and getCurrentWalletState reports isConnected = false.
C24_FailedAutoReconnectClearsStorage ==
    AutoReconnectReturnedNotConnected
       => /\ StoredIsFalsy(storage)
          /\ ~CurrentWalletState(storage).isConnected

\* C25: with no connect or disconnect in flight, a session that
\* getCurrentWalletState reports as connected with an address has an active
\* signing backend, and no createProof fails with 'No wallet connected'.
C25_ConnectedSessionHasBackend ==
    /\ (c_pc = "idle" /\ d_pc = "idle" /\ WalletGuardPasses(CurrentWalletState(storage)))
          => BackendActive(currentProvider)
    /\ ret.op = "createProof" => ret.path # "noBackend"

(***************************************************************************)
(* Properties of the read operations (checked under SpecRead)              *)
(***************************************************************************)
\* C7: a read operation never raises; when the provider or the parser throws
\* or the response is empty, getProof and getProofOwner return null,
\* getUserProofs returns [], proofExists returns false, and getUserProofCount
\* and getTotalProofs return 0.
C7_ReadsNeverRaise ==
    /\ r_ret.outcome.kind = "return"
    /\ r_ret.how \in {"providerThrows", "parserThrows", "noReturnData", "emptyReturnData"}
         => /\ r_ret.op \in {"getProof", "getProofOwner"}
                 => r_ret.outcome.value.type = "null"
            /\ r_ret.op = "getUserProofs"
                 => (r_ret.outcome.value.type = "array" /\ r_ret.outcome.value.items = <<>>)
            /\ r_ret.op = "proofExists"
                 => (r_ret.outcome.value.type = "boolean" /\ r_ret.outcome.value.text = "false")
            /\ r_ret.op \in {"getUserProofCount", "getTotalProofs"}
                 => (r_ret.outcome.value.type = "number" /\ r_ret.outcome.value.num = 0
                     /\ r_ret.outcome.value.text = "")

\* C7 witness: a proofExists whose result parser threw returned false.
C7_Witness ==
    /\ r_ret.op = "proofExists"
    /\ r_ret.how = "parserThrows"
    /\ r_ret.outcome.kind = "return"
    /\ r_ret.outcome.value.text = "false"

(***************************************************************************)
(* Properties of the utils ContractService read methods (checked under     *)
(* SpecUtilRead)                                                           *)
(***************************************************************************)
\* C15: a read method of the utils ContractService never raises; when the
\* network provider or the result parser throws it returns its safe default:
\* null for getProof and getProofOwner, [] for getUserProofs and
\* getUserProofIds, 0 for getTotalProofs and getUserProofCount, false for
\* proofExists.
C15_UtilReadsNeverRaise ==
    /\ u_ret.outcome.kind = "return"
    /\ u_ret.how \in {"providerThrows", "parserThrows"}
         => /\ u_ret.op \in {"getProof", "getProofOwner"}
                 => u_ret.outcome.value.type = "null"
            /\ u_ret.op \in {"getUserProofs", "getUserProofIds"}
                 => (u_ret.outcome.value.type = "array" /\ u_ret.outcome.value.items = <<>>)
            /\ u_ret.op = "proofExists"
                 => (u_ret.outcome.value.type = "boolean" /\ u_ret.outcome.value.text = "false")
            /\ u_ret.op \in {"getTotalProofs", "getUserProofCount"}
                 => (u_ret.outcome.value.type = "number" /\ u_ret.outcome.value.num = 0
                     /\ u_ret.outcome.value.text = "")

(***************************************************************************)
(* Properties of a proof's round trip (checked under SpecChain)            *)
(***************************************************************************)
\* The getProof just completed asked, for the connected address, for the
\* proof_id of the last createProof call, and the network answered the query.
AskedForCreatedProof ==
    /\ k_got.user = "erd1alice"
    /\ k_got.id = k_req.proof_id
    /\ k_got.answered

\* The value getProof returned is a record with the text, id and metadata of
\* the last createProof call (no metadata reads back as the empty string)
\* and a timestamp greater than the clock reading taken before that call.
GotCreatedProof ==
    /\ k_got.value.type = "object"
    /\ Len(k_got.value.items) = 1
    /\ k_got.value.items[1].proof_text = k_req.proof_text
    /\ k_got.value.items[1].proof_id = k_req.proof_id
    /\ k_got.value.items[1].metadata
          = (IF k_req.metadata = NoValue THEN "" ELSE k_req.metadata)
    /\ k_got.value.items[1].timestamp.type = "number"
    /\ k_got.value.items[1].timestamp.text = ""
    /\ k_got.value.items[1].timestamp.num > k_pre

IdText == [i \in 1..(Len(v_id.pattern) + v_id.pad) |->
              IF i <= Len(v_id.pattern) THEN v_id.pattern[i] ELSE v_id.padChar]

\* The validated id has a character left after trimming.
IdNonEmptyTrimmed == v_id.given /\ \E i \in 1..Len(IdText) : IdText[i] # " "

\* The validated id is made only of letters, digits, '_' and '-'.
IdWellFormed == \A i \in 1..Len(IdText) : IdText[i] \in {"a", "7", "_", "-"}

\* C17: validateProofId returns valid = true with no error exactly for ids
\* that are non-empty after trimming, at most 100 characters long and made
\* only of letters, digits, '_' and '-'; otherwise valid = false with an
\* error: the empty-id error when nothing is left after trimming, else the
\* length error when the id is longer than 100, else the character-set error.
C17_ValidateProofId ==
    v_ret.called
        => /\ v_ret.valid <=> (IdNonEmptyTrimmed /\ Len(IdText) <= 100 /\ IdWellFormed)
           /\ v_ret.valid => v_ret.error = NoValue
           /\ ~v_ret.valid =>
                v_ret.error =
                   (IF ~IdNonEmptyTrimmed THEN "Proof ID cannot be empty"
                    ELSE IF Len(IdText) > 100 THEN "Proof ID cannot exceed 100 characters"
                    ELSE "Proof ID can only contain alphanumeric characters, underscores, and hyphens")

\* C17 witness: an id of 101 blanks was rejected as empty, not as too long.
C17_Witness ==
    /\ v_ret.called
    /\ v_id.given
    /\ Len(IdText) = 101
    /\ \A i \in 1..101 : IdText[i] = " "
    /\ ~v_ret.valid
    /\ v_ret.error = "Proof ID cannot be empty"

(***************************************************************************)
(* Properties of the create flow (checked under SpecCreateFlow)            *)
(***************************************************************************)
\* createProof returned the hash of a transaction that was built, signed and
\* then broadcast.
CreateSucceeded ==
    /\ ret.op = "createProof"
    /\ ret.kind = "return"
    /\ ret.path = "ok"
    /\ ret.calls = <<"sign", "broadcast">>
    /\ ret.hash \in TxHashes

\* The poll reported completion: waitForTransaction returned a success status,
\* the answer of its last getTransactionStatus.
PollReportedCompletion ==
    /\ w_pc = "returned"
    /\ w_result.kind = "return"
    /\ IsSuccessStatus(w_result.status)
    /\ w_polls # <<>>
    /\ w_polls[Len(w_polls)] = StatusOf(w_result.status)

\* C18: in the create flow the steps happen in the order build, sign,
\* broadcast, poll, refresh (user proofs, then stats), each only after the one
\* before it succeeded: signing and broadcasting happen inside createProof
\* before anything is polled or read, polling starts only with the hash of a
\* signed and broadcast transaction, the refresh reads are issued only after
\* the poll reported completion, the stats reads only after the user-proofs
\* read, and a flow that failed at createProof has polled nothing and read
\* nothing, one that failed at the poll has read nothing.
C18_CreateFlowOrder ==
    /\ m_calls \in {<<>>, <<"sign">>, <<"sign", "broadcast">>}
    /\ m_calls # <<>> => f_pc = "create" /\ w_pc = "idle" /\ f_reads = <<>>
    /\ (w_pc # "idle" \/ w_polls # <<>>)
          => /\ CreateSucceeded
             /\ f_pc \notin {"idle", "skipped", "create"}
             /\ f_tx.hash \in {ret.hash, NoValue}
    /\ f_pc = "wait" => CreateSucceeded /\ f_tx.hash = ret.hash /\ f_reads = <<>>
    /\ f_reads \in {<<>>, UserProofsReads, UserProofsReads \o StatsReads}
    /\ f_reads # <<>> => CreateSucceeded /\ PollReportedCompletion
    /\ f_pc = "userProofs" => f_reads = UserProofsReads
    /\ f_pc \in {"stats", "done", "cleared"} => f_reads = UserProofsReads \o StatsReads
    /\ f_pc = "failed"
          => /\ f_reads = <<>>
             /\ f_tx.status = "failed"
             /\ \/ /\ ret.op = "createProof" /\ ret.kind = "throw"
                   /\ w_pc = "idle" /\ w_polls = <<>>
                   /\ ret.path \in {"guard", "build", "noBackend"} => ret.calls = <<>>
                   /\ ret.path = "sign" => ret.calls = <<"sign">>
                \/ /\ CreateSucceeded
                   /\ w_pc = "raised"
    /\ f_pc = "skipped" => ret.op # "createProof" /\ w_pc = "idle" /\ f_reads = <<>>

\* A flow that polled more than once and has completed its refresh.
C18_Witness ==
    /\ f_pc = "done"
    /\ CreateSucceeded
    /\ PollReportedCompletion
    /\ Len(w_polls) >= 2
    /\ f_reads = UserProofsReads \o StatsReads
    /\ f_tx.status = "success"

\* C29: the transaction state of the create flow.  Its status is 'success'
\* only after waitForTransaction has returned for the hash that createProof
\* returned; once createProof or waitForTransaction has raised and the
\* handler has resumed, the status is 'failed' with isLoading = false and the
\* message of the raised error; and isLoading = true never goes together with
\* the status 'success' or 'failed'.
C29_TransactionStateFollowsFlow ==
    /\ f_tx.status = "success"
          => /\ CreateSucceeded
             /\ PollReportedCompletion
             /\ f_tx = TransactionState(FALSE, ret.hash, "success", NoValue)
    /\ f_tx.status = "pending"
          => /\ CreateSucceeded
             /\ f_pc = "wait"
             /\ f_tx = TransactionState(TRUE, ret.hash, "pending", NoValue)
    /\ (f_pc # "create" /\ ret.op = "createProof" /\ ret.kind = "throw")
          => /\ f_pc = "failed"
             /\ f_tx = TransactionState(FALSE, NoValue, "failed",
                                        MessageOf(ret.error, "Creation failed"))
    /\ (f_pc # "wait" /\ w_pc = "raised")
          => /\ f_pc = "failed"
             /\ f_tx = TransactionState(FALSE, NoValue, "failed",
                                        MessageOf(w_result.error, "Creation failed"))
    /\ f_tx.status = "failed"
          => /\ f_pc = "failed"
             /\ \/ ret.op = "createProof" /\ ret.kind = "throw"
                \/ w_pc = "raised"
    /\ f_tx.isLoading => f_tx.status \in {NoValue, "pending"}

\* C29 witness: a flow whose createProof returned a hash and whose
\* waitForTransaction raised the timeout error has the status 'failed' with
\* the timeout message.
C29_Witness ==
    /\ f_pc = "failed"
    /\ CreateSucceeded
    /\ TimeoutRaised
    /\ f_tx = TransactionState(FALSE, NoValue, "failed", "Transaction timeout")

(***************************************************************************)
(* Properties of the argument lists (checked under SpecArgs)               *)
(***************************************************************************)
\* The text of an argument: the string a StringValue holds, or the value of a
\* BytesValue / OptionalValue.
ArgText(arg) == IF a_fn \in {"createProof", "updateProof"} THEN arg ELSE arg.value

\* C19: the create call builds the list (proof_text, proof_id) and the update
\* call the list (proof_id, new_proof_text), in that order, with the metadata
\* as a third argument when metadata is provided and with exactly two
\* arguments when it is not.
C19_ArgumentLists ==
    a_fn # "none"
       => /\ Len(a_args) >= 2
          /\ <<ArgText(a_args[1]), ArgText(a_args[2])>> =
                 IF a_fn \in {"createProof", "utils.certifyAction"}
                 THEN <<a_text, a_id>>
                 ELSE <<a_id, a_text>>
          /\ IF MetadataProvided(a_metadata)
             THEN Len(a_args) = 3 /\ ArgText(a_args[3]) = a_metadata
             ELSE Len(a_args) = 2

(***************************************************************************)
(* Termination of waitForTransaction (checked under SpecWaitFair)          *)
(***************************************************************************)
WaitRunning == w_pc \in {"poll", "waitTry", "waitCatch"}

WaitEnded == w_pc \in {"returned", "raised"}

\* C20: a waitForTransaction call that has started always ends, by returning
\* or by raising, after at most maxRetries polls; while it runs nothing
\* restarts it, changes its maxRetries or takes a poll back, and it ends
\* before its maxRetries-th poll only by returning a success status.
C20_WaitTerminates ==
    /\ WaitRunning ~> WaitEnded
    /\ [](/\ Len(w_polls) <= w_max
          /\ w_pc = "returned"
                => /\ w_result.kind = "return"
                   /\ w_polls # <<>>
                   /\ w_polls[Len(w_polls)] = StatusOf(w_result.status)
                   /\ IsSuccessStatus(w_result.status)
          /\ w_pc = "raised" => w_result.kind = "throw" /\ Len(w_polls) = w_max)
    /\ [][WaitRunning
             => /\ w_pc' # "idle"
                /\ w_max' = w_max
                /\ Len(w_polls') >= Len(w_polls)
                /\ SubSeq(w_polls', 1, Len(w_polls)) = w_polls]_vars

\* C20 witness: a call with the largest maxRetries ended by raising the error
\* its last getTransactionStatus threw, after polls that answered `pending`.
C20_Witness ==
    /\ w_pc = "raised"
    /\ w_max = MaxRetries
    /\ Len(w_polls) = w_max
    /\ \A k \in 1..(w_max - 1) : PollIn(k, {"pending"})
    /\ w_polls[w_max].kind = "throw"
    /\ w_result = Raised(w_polls[w_max].error)

(***************************************************************************)
(* Properties of the Dashboard component (checked under SpecDashboard and  *)
(* SpecDashboardFair)                                                      *)
(***************************************************************************)
\* { isLoading: false }
TransactionCleared == TransactionState(FALSE, NoValue, NoValue, NoValue)

\* A handleCreateProof run is between its start and its success or failure.
CreateInFlight == ui_pc \in {"create", "wait"}

\* C22: after a create flow ended in success the transaction state is
\* eventually reset to { isLoading: false } without hash, status or error; a
\* flow that fails sets no timer, and a failed status stays until the next
\* create starts.
C22_ResetAfterSuccessOnly ==
    /\ (ui_tx.status = "success") ~> (ui_tx = TransactionCleared)
    /\ [][ /\ (ui_tx'.status = "failed" /\ ui_tx # ui_tx') => ui_timers' = ui_timers
           /\ (ui_tx.status = "failed" /\ ui_tx' # ui_tx)
                 => /\ ui_pc = "idle"
                    /\ ui_pc' = "create"
                    /\ ui_tx' = TransactionState(TRUE, NoValue, NoValue, NoValue) ]_vars

\* C27: while a create flow is in flight, transaction.isLoading is true.
C27_LoadingWhileInFlight == CreateInFlight => ui_tx.isLoading

\* C28: after handleWalletDisconnect has completed and until the next
\* successful connect, the proofs list is empty and the stats are zero.
C28_ClearedAfterDisconnect ==
    ui_cleared => ui_proofs = <<>> /\ ui_stats = NoStats

(***************************************************************************)
(* Properties of a single connectWallet call (checked under                *)
(* SpecFirstConnect)                                                       *)
(***************************************************************************)
\* C23: a connect call that returns isConnected = false leaves the session
\* manager as it was before the call.  For the first call after a page load,
\* before which there is no active signing backend: when it has returned
\* isConnected = false there is still no active signing backend, and the
\* persisted wallet_state is what it was.
C23_FailedConnectChangesNothing ==
    (ret.op = "connectWallet" /\ ~ret.session.isConnected)
       => /\ currentProvider = NoProvider
          /\ storage = ret.read

(***************************************************************************)
(* Properties of the utils ContractService's signing backend (checked      *)
(* under SpecUtilConnect)                                                  *)
(***************************************************************************)
\* C30: once connectWallet has thrown, and as long as no connectWallet has
\* returned, the service has no signing backend whenever no connectWallet is
\* in progress, and a getUserAddress, certifyAction or updateProof that has
\* completed threw 'Wallet not connected' without calling the network
\* provider.
C30_FailedConnectLeavesDisconnected ==
    (uc_thrown /\ ~uc_succeeded /\ uc_pc # "init")
       => /\ walletProvider = NoValue
          /\ uc_pc = "idle"
          /\ uc_ret.op \in WalletMethods
                => uc_ret = UtilRet(uc_ret.op, "throw", WalletNotConnected, FALSE)

====
